---- MODULE Spec2Model ----
(***************************************************************************)
(* Provider-side agent of the two-ledger payment-channel network.          *)
(*                                                                         *)
(* The SDK operations of src/src/lib/server.ts are asynchronous functions: *)
(* every `await` is a point where other calls, event handlers and the two  *)
(* ledgers may take steps.  The code between two awaits runs in one turn   *)
(* of the JavaScript event loop and is modelled as one atomic action.  The *)
(* channel state (status, balance proofs, rebalance proofs, fee proofs)    *)
(* lives in the application-chain contract; the agent only reads it with   *)
(* call() and changes it by submitting transactions.                       *)
(***************************************************************************)
EXTENDS Integers, Sequences, FiniteSets, TLC

VARIABLES
    channelMap,         \* appPN.channelMap: channelID -> [status, token]
    balanceProofMap,    \* appPN.balanceProofMap: <<channelID, receiver>> -> [balance, nonce]
    rebalanceProofMap,  \* appPN.rebalanceProofMap: channelID -> [amount, nonce]
    paymentNetworkMap,  \* appPN.paymentNetworkMap: token -> [providerOnchainBalance, providerBalance]
    calls,              \* the SDK calls in flight: call id -> activation record
    signed,             \* every message signed with the provider key (Common.SignatureToHex)
    appTxs,             \* application-chain transactions, in the order send(tx) was issued
    ethTxs,             \* primary-chain transactions, in the order sendSignedTransaction was issued
    ethTxCount,         \* web3.eth.getTransactionCount(provider): transactions mined so far
    feeProofMap,        \* appPN.feeProofMap: token -> [amount, nonce]
    feeRateMap,         \* appPN.feeRateMap: token -> rate in units of 1/10000
    arrearBalanceProofMap, \* appPN: channelID -> the user's latest proof towards the provider
    blockNumber,        \* the application chain's latest block
    events,             \* the application chain's event log, in block order
    watcher,            \* the two HttpWatcher objects: watcher -> the state of its start()
    scans,              \* the processAllEvent activations they started, in order
    ethBlockNumber,     \* the primary chain's latest block
    cpProvider,         \* the account SDK.Init derived from the provider's private key
    restarts,           \* how often the process has been started again
    callbacks,          \* the Map that SDK.on fills: event kind -> the callback registered
    registered,         \* the calls of SDK.on and the new Maps of SDK.Init, in order
    delivered,          \* the calls of registered callbacks, in order
    sends               \* Common.SendEthTransaction activations that no caller awaits

feeVars == <<feeProofMap, feeRateMap, arrearBalanceProofMap>>
cbVars == <<callbacks, registered, delivered, sends>>
watchVars == <<blockNumber, events, watcher, scans, ethBlockNumber, cpProvider, restarts,
               cbVars>>

vars == <<channelMap, balanceProofMap, rebalanceProofMap, paymentNetworkMap,
          calls, signed, appTxs, ethTxs, ethTxCount, feeVars, watchVars>>

(***************************************************************************)
(* Bounds of the model.                                                    *)
(***************************************************************************)
NCalls == 2          \* SDK calls issued in one run
MaxAmount == 1       \* largest amount argument
MaxOnchain == 1      \* largest initial balance of the provider in a token

CallIds == 1 .. NCalls
\* amount: number | string goes through web3.utils.toBN, which accepts a sign
Amounts == (-1) .. MaxAmount

ADDRESS_ZERO == "0x0"
Tokens == {ADDRESS_ZERO, "tokenA"}
Users == {"user1"}
Provider == "cp"

StatusOpen == "Open"
Statuses == {"Open", "Closing"}

\* ethPN.methods.getChannelID(user, token): the channel of the pair.  One user, so the
\* token names the channel.
getChannelID(user, token) == <<user, token>>
Channels == {getChannelID(u, t) : u \in Users, t \in Tokens}

Undefined == "undefined"

NoProof == [balance |-> 0, nonce |-> 0]
NoData == [method |-> "none"]

IdleCall ==
    [op |-> "idle", pc |-> "idle", user |-> Undefined, token |-> Undefined, amount |-> 0,
     channelID |-> Undefined, status |-> Undefined, balance |-> 0, nonce |-> 0,
     providerBalance |-> 0, onchain |-> 0, got |-> {}, bp |-> NoProof, rp |-> NoProof,
     data |-> NoData, value |-> 0, ethNonce |-> 0, ret |-> Undefined,
     tx |-> 0, inTXs |-> <<>>, outTXs |-> <<>>,
     out |-> [kind |-> "pending", value |-> Undefined, hash |-> 0]]

\* How a call settles.  value is what the async function returns or the message of the
\* error it throws; a returned transaction hash is the transaction's place in ethTxs.
Returned(v) == [kind |-> "returned", value |-> v, hash |-> 0]
ReturnedHash(h) == [kind |-> "returned", value |-> "hash", hash |-> h]
Thrown(v) == [kind |-> "thrown", value |-> v, hash |-> 0]

\* The call settles: its promise resolves with a value or rejects with an error.
Settle(rec, outcome) == [rec EXCEPT !.pc = "done", !.out = outcome]
Finish(c, outcome) == Settle(calls[c], outcome)

\* Call ids number the calls in the order they are issued.
CanCall(c) == calls[c].pc = "idle" /\ \A d \in CallIds : d < c => calls[d].pc # "idle"

(***************************************************************************)
(* Helpers shared by the operations.                                       *)
(***************************************************************************)

\* A faulty variant, for comparison: the status check is gone.
StatusNotOpen_Unchecked(status) == FALSE

\* if (Number(channel.status) != CHANNEL_STATUS.CHANNEL_STATUS_OPEN)
StatusNotOpen(status) == status # StatusOpen

\* A faulty variant, for comparison: the policy failure is returned, as the funds check does.
NotOpenOutcome_Returned == Returned("false")

\* throw new Error("channel status is not open")
NotOpenOutcome == Thrown("channel status is not open")

\* nonce = web3.utils.toBN(nonce).add(web3.utils.toBN(1))
NextNonce(nonce) == nonce + 1

\* amountBN.add(balanceBN): BN arithmetic is unbounded and signed
AddAmount(balance, amount) == balance + amount

\* A faulty variant, for comparison: the test of receipt.errorMessage is inverted.
SubmissionOutcome_Inverted(hasHash, errorMessage) ==
    IF hasHash
    THEN IF errorMessage THEN "confirm success" ELSE "confirm fail"
    ELSE "send CITA tx fail"

\* The if (rs.hash) { receipt ... } else { ... } tail shared by ProposeWithdraw,
\* ProposeReBalance and SendAsset: hasHash is rs.hash, errorMessage the receipt's field.
SubmissionOutcome(hasHash, errorMessage) ==
    IF hasHash
    THEN IF ~errorMessage THEN "confirm success" ELSE "confirm fail"
    ELSE "send CITA tx fail"

\* Common.SignatureToHex(messageHash): the signed payload is recorded
Sign(c, kind, fields) == signed \cup {[by |-> c, kind |-> kind, fields |-> fields]}

\* appPN.methods.<method>(...).send(tx): the transaction leaves the agent
AppTx(c, method, args) == [by |-> c, method |-> method, args |-> args, st |-> "sent"]

SetTxState(i, st) == [appTxs EXCEPT ![i].st = st]

(***************************************************************************)
(* SDK.SendAsset(to, amount, token)                                        *)
(***************************************************************************)

\* The call, up to the answer of appPN.methods.channelMap(channelID).call() and the
\* status check (getChannelID reads nothing that changes)
SA_Call(c, to, amount, token) ==
    /\ CanCall(c)
    /\ LET ch == getChannelID(to, token)
           status == channelMap[ch].status
           rec == [IdleCall EXCEPT !.op = "SendAsset", !.user = to, !.amount = amount,
                                   !.token = token, !.channelID = ch, !.status = status]
       IN calls' = [calls EXCEPT ![c] =
                       IF StatusNotOpen(status)
                       THEN Settle(rec, NotOpenOutcome)
                       ELSE [rec EXCEPT !.pc = "sa_proof"]]
    /\ UNCHANGED <<channelMap, balanceProofMap, rebalanceProofMap, paymentNetworkMap,
                   signed, appTxs, ethTxs, ethTxCount, feeVars, watchVars>>

\* balanceProofMap(channelID, to).call() returns; the new proof is computed, signed and
\* handed to send(tx) in the same turn
SA_ReadProofSignSend(c) ==
    /\ calls[c].pc = "sa_proof"
    /\ LET ch == calls[c].channelID
           proof == balanceProofMap[<<ch, calls[c].user>>]
           assetAmount == AddAmount(proof.balance, calls[c].amount)
           nonce == NextNonce(proof.nonce)
           fields == [channelID |-> ch, balance |-> assetAmount, nonce |-> nonce,
                      additionalHash |-> "0x0"]
       IN /\ signed' = Sign(c, "balanceProof", fields)
          /\ appTxs' = Append(appTxs, AppTx(c, "transfer", fields))
          /\ calls' = [calls EXCEPT ![c] =
                          [@ EXCEPT !.pc = "sa_send", !.balance = proof.balance,
                                    !.nonce = proof.nonce, !.tx = Len(appTxs) + 1]]
    /\ UNCHANGED <<channelMap, balanceProofMap, rebalanceProofMap, paymentNetworkMap,
                   ethTxs, ethTxCount, feeVars, watchVars>>

\* send(tx) resolves: rs.hash is set when the node took the transaction
SA_SendReturns(c) ==
    /\ calls[c].pc = "sa_send"
    /\ \E hasHash \in BOOLEAN :
          IF hasHash
          THEN /\ appTxs' = SetTxState(calls[c].tx, "pending")
               /\ calls' = [calls EXCEPT ![c].pc = "sa_receipt"]
          ELSE /\ appTxs' = SetTxState(calls[c].tx, "nohash")
               /\ calls' = [calls EXCEPT ![c] =
                               Finish(c, Returned(SubmissionOutcome(FALSE, FALSE)))]
    /\ UNCHANGED <<channelMap, balanceProofMap, rebalanceProofMap, paymentNetworkMap,
                   signed, ethTxs, ethTxCount, feeVars, watchVars>>

\* CITA.listeners.listenToTransactionReceipt(rs.hash) resolves with the receipt
SA_Receipt(c) ==
    /\ calls[c].pc = "sa_receipt"
    /\ appTxs[calls[c].tx].st \in {"ok", "err"}
    /\ calls' = [calls EXCEPT ![c] =
                    Finish(c, Returned(SubmissionOutcome(TRUE, appTxs[calls[c].tx].st = "err")))]
    /\ UNCHANGED <<channelMap, balanceProofMap, rebalanceProofMap, paymentNetworkMap,
                   signed, appTxs, ethTxs, ethTxCount, feeVars, watchVars>>

SendAsset(c) ==
    \/ \E to \in Users, amount \in Amounts, token \in Tokens : SA_Call(c, to, amount, token)
    \/ SA_ReadProofSignSend(c)
    \/ SA_SendReturns(c)
    \/ SA_Receipt(c)

(***************************************************************************)
(* SDK.ProposeReBalance(userAddress, amount, token)                        *)
(***************************************************************************)

\* A faulty variant, for comparison: the call is also turned down when the amount uses the
\* provider's balance up.
RebalanceRejected_Strict(amount, balance, providerBalance) ==
    amount - balance >= providerBalance

\* if (amountBN.sub(balanceBN).gt(providerBalanceBN)) return false
RebalanceRejected(amount, balance, providerBalance) == amount - balance > providerBalance

\* The call, up to the answer of channelMap(channelID).call() and the status check
RB_Call(c, userAddress, amount, token) ==
    /\ CanCall(c)
    /\ LET ch == getChannelID(userAddress, token)
           status == channelMap[ch].status
           rec == [IdleCall EXCEPT !.op = "ProposeReBalance", !.user = userAddress,
                                   !.amount = amount, !.token = token, !.channelID = ch,
                                   !.status = status]
       IN calls' = [calls EXCEPT ![c] =
                       IF StatusNotOpen(status)
                       THEN Settle(rec, NotOpenOutcome)
                       ELSE [rec EXCEPT !.pc = "rb_balance"]]
    /\ UNCHANGED <<channelMap, balanceProofMap, rebalanceProofMap, paymentNetworkMap,
                   signed, appTxs, ethTxs, ethTxCount, feeVars, watchVars>>

\* let [{ providerBalance }] = await Promise.all([ paymentNetworkMap(token).call() ])
RB_ReadProviderBalance(c) ==
    /\ calls[c].pc = "rb_balance"
    /\ calls' = [calls EXCEPT ![c] =
                    [@ EXCEPT !.pc = "rb_proof",
                              !.providerBalance = paymentNetworkMap[calls[c].token].providerBalance]]
    /\ UNCHANGED <<channelMap, balanceProofMap, rebalanceProofMap, paymentNetworkMap,
                   signed, appTxs, ethTxs, ethTxCount, feeVars, watchVars>>

\* rebalanceProofMap(channelID).call() returns; the funds check, the new amount and nonce,
\* and the signature, up to await Common.BuildAppChainTX()
RB_ReadProofSign(c) ==
    /\ calls[c].pc = "rb_proof"
    /\ LET ch == calls[c].channelID
           proof == rebalanceProofMap[ch]
           reBalanceAmount == AddAmount(proof.amount, calls[c].amount)
           nonce == NextNonce(proof.nonce)
           fields == [channelID |-> ch, amount |-> reBalanceAmount, nonce |-> nonce]
       IN IF RebalanceRejected(calls[c].amount, proof.amount, calls[c].providerBalance)
          THEN /\ calls' = [calls EXCEPT ![c] =
                              [Finish(c, Returned("false")) EXCEPT !.balance = proof.amount,
                                                                 !.nonce = proof.nonce]]
               /\ UNCHANGED signed
          ELSE /\ signed' = Sign(c, "rebalanceProof", fields)
               /\ calls' = [calls EXCEPT ![c] =
                              [@ EXCEPT !.pc = "rb_build", !.balance = proof.amount,
                                        !.nonce = proof.nonce]]
    /\ UNCHANGED <<channelMap, balanceProofMap, rebalanceProofMap, paymentNetworkMap,
                   appTxs, ethTxs, ethTxCount, feeVars, watchVars>>

\* BuildAppChainTX() returns; proposeRebalance(channelID, amount, nonce, signature).send(tx)
RB_Send(c) ==
    /\ calls[c].pc = "rb_build"
    /\ LET fields == [channelID |-> calls[c].channelID,
                      amount |-> AddAmount(calls[c].balance, calls[c].amount),
                      nonce |-> NextNonce(calls[c].nonce)]
       IN appTxs' = Append(appTxs, AppTx(c, "proposeRebalance", fields))
    /\ calls' = [calls EXCEPT ![c] = [@ EXCEPT !.pc = "rb_send", !.tx = Len(appTxs) + 1]]
    /\ UNCHANGED <<channelMap, balanceProofMap, rebalanceProofMap, paymentNetworkMap,
                   signed, ethTxs, ethTxCount, feeVars, watchVars>>

RB_SendReturns(c) ==
    /\ calls[c].pc = "rb_send"
    /\ \E hasHash \in BOOLEAN :
          IF hasHash
          THEN /\ appTxs' = SetTxState(calls[c].tx, "pending")
               /\ calls' = [calls EXCEPT ![c].pc = "rb_receipt"]
          ELSE /\ appTxs' = SetTxState(calls[c].tx, "nohash")
               /\ calls' = [calls EXCEPT ![c] =
                               Finish(c, Returned(SubmissionOutcome(FALSE, FALSE)))]
    /\ UNCHANGED <<channelMap, balanceProofMap, rebalanceProofMap, paymentNetworkMap,
                   signed, ethTxs, ethTxCount, feeVars, watchVars>>

RB_Receipt(c) ==
    /\ calls[c].pc = "rb_receipt"
    /\ appTxs[calls[c].tx].st \in {"ok", "err"}
    /\ calls' = [calls EXCEPT ![c] =
                    Finish(c, Returned(SubmissionOutcome(TRUE, appTxs[calls[c].tx].st = "err")))]
    /\ UNCHANGED <<channelMap, balanceProofMap, rebalanceProofMap, paymentNetworkMap,
                   signed, appTxs, ethTxs, ethTxCount, feeVars, watchVars>>

ProposeReBalance(c) ==
    \/ \E u \in Users, amount \in Amounts, token \in Tokens : RB_Call(c, u, amount, token)
    \/ RB_ReadProviderBalance(c)
    \/ RB_ReadProofSign(c)
    \/ RB_Send(c)
    \/ RB_SendReturns(c)
    \/ RB_Receipt(c)

(***************************************************************************)
(* SDK.ProposeWithdraw(amount, token)                                      *)
(***************************************************************************)

\* A faulty variant, for comparison: the second check is missing.
WithdrawRejected_FirstCheckOnly(amount, onchain, providerBalance) == amount > onchain

\* if (amountBN.gt(onChainBalanceBN)) return false;
\* balance = onChain - amount; if (balance.gt(balanceBN)) return false
WithdrawRejected(amount, onchain, providerBalance) ==
    \/ amount > onchain
    \/ onchain - amount > providerBalance

PW_Call(c, amount, token) ==
    /\ CanCall(c)
    /\ calls' = [calls EXCEPT ![c] =
                    [IdleCall EXCEPT !.op = "ProposeWithdraw", !.pc = "pw_balance",
                                     !.amount = amount, !.token = token]]
    /\ UNCHANGED <<channelMap, balanceProofMap, rebalanceProofMap, paymentNetworkMap,
                   signed, appTxs, ethTxs, ethTxCount, feeVars, watchVars>>

\* paymentNetworkMap(token).call() returns both balances of one read; the two checks
PW_ReadBalances(c) ==
    /\ calls[c].pc = "pw_balance"
    /\ LET pn == paymentNetworkMap[calls[c].token] IN
       calls' = [calls EXCEPT ![c] =
                    IF WithdrawRejected(calls[c].amount, pn.providerOnchainBalance,
                                        pn.providerBalance)
                    THEN [Finish(c, Returned("false")) EXCEPT
                              !.onchain = pn.providerOnchainBalance,
                              !.providerBalance = pn.providerBalance]
                    ELSE [@ EXCEPT !.pc = "pw_build",
                                   !.onchain = pn.providerOnchainBalance,
                                   !.providerBalance = pn.providerBalance]]
    /\ UNCHANGED <<channelMap, balanceProofMap, rebalanceProofMap, paymentNetworkMap,
                   signed, appTxs, ethTxs, ethTxCount, feeVars, watchVars>>

\* BuildAppChainTX() and GetLastCommitBlock() return;
\* providerProposeWithdraw(token, balance, lastCommitBlock).send(tx)
PW_Send(c) ==
    /\ calls[c].pc = "pw_build"
    /\ LET fields == [token |-> calls[c].token,
                      balance |-> calls[c].onchain - calls[c].amount]
       IN appTxs' = Append(appTxs, AppTx(c, "providerProposeWithdraw", fields))
    /\ calls' = [calls EXCEPT ![c] = [@ EXCEPT !.pc = "pw_send", !.tx = Len(appTxs) + 1]]
    /\ UNCHANGED <<channelMap, balanceProofMap, rebalanceProofMap, paymentNetworkMap,
                   signed, ethTxs, ethTxCount, feeVars, watchVars>>

PW_SendReturns(c) ==
    /\ calls[c].pc = "pw_send"
    /\ \E hasHash \in BOOLEAN :
          IF hasHash
          THEN /\ appTxs' = SetTxState(calls[c].tx, "pending")
               /\ calls' = [calls EXCEPT ![c].pc = "pw_receipt"]
          ELSE /\ appTxs' = SetTxState(calls[c].tx, "nohash")
               /\ calls' = [calls EXCEPT ![c] =
                               Finish(c, Returned(SubmissionOutcome(FALSE, FALSE)))]
    /\ UNCHANGED <<channelMap, balanceProofMap, rebalanceProofMap, paymentNetworkMap,
                   signed, ethTxs, ethTxCount, feeVars, watchVars>>

PW_Receipt(c) ==
    /\ calls[c].pc = "pw_receipt"
    /\ appTxs[calls[c].tx].st \in {"ok", "err"}
    /\ calls' = [calls EXCEPT ![c] =
                    Finish(c, Returned(SubmissionOutcome(TRUE, appTxs[calls[c].tx].st = "err")))]
    /\ UNCHANGED <<channelMap, balanceProofMap, rebalanceProofMap, paymentNetworkMap,
                   signed, appTxs, ethTxs, ethTxCount, feeVars, watchVars>>

ProposeWithdraw(c) ==
    \/ \E amount \in Amounts, token \in Tokens : PW_Call(c, amount, token)
    \/ PW_ReadBalances(c)
    \/ PW_Send(c)
    \/ PW_SendReturns(c)
    \/ PW_Receipt(c)

(***************************************************************************)
(* Common.SendEthTransaction(from, to, value, data), run on behalf of call *)
(* c; calls[c].ret names where the caller continues once the returned      *)
(* promise resolves.                                                       *)
(***************************************************************************)

\* the caller reaches `await Common.SendEthTransaction(...)`
EnterSendEth(rec, value, data, ret) ==
    [rec EXCEPT !.pc = "eth_nonce", !.value = value, !.data = data, !.ret = ret]

\* let nonce = await web3.eth.getTransactionCount(from)
Eth_GetTransactionCount(c) ==
    /\ calls[c].pc = "eth_nonce"
    /\ calls' = [calls EXCEPT ![c] = [@ EXCEPT !.pc = "eth_build", !.ethNonce = ethTxCount]]
    /\ UNCHANGED <<channelMap, balanceProofMap, rebalanceProofMap, paymentNetworkMap,
                   signed, appTxs, ethTxs, ethTxCount, feeVars, watchVars>>

\* getId() and getGasPrice() return; the raw transaction is signed and handed to
\* web3.eth.sendSignedTransaction inside the new Promise
Eth_SendSigned(c) ==
    /\ calls[c].pc = "eth_build"
    /\ ethTxs' = Append(ethTxs, [by |-> c, data |-> calls[c].data, value |-> calls[c].value,
                                 nonce |-> calls[c].ethNonce, st |-> "sent"])
    /\ calls' = [calls EXCEPT ![c] = [@ EXCEPT !.pc = "eth_wait", !.tx = Len(ethTxs) + 1]]
    /\ UNCHANGED <<channelMap, balanceProofMap, rebalanceProofMap, paymentNetworkMap,
                   signed, appTxs, ethTxCount, feeVars, watchVars>>

\* What the caller does with the resolved hash.
AfterSendEth(c, hash) ==
    CASE calls[c].ret = "dep_approved" ->
            \* Deposit: the approval went out, now the deposit call with zero value
            EnterSendEth(calls[c], 0, [method |-> "providerDeposit"], "dep_done")
      [] calls[c].ret = "dep_done" ->
            \* Deposit: return hash
            Finish(c, ReturnedHash(hash))
      [] OTHER ->
            \* CloseChannel: console.log(hash), no return value
            Finish(c, Returned(Undefined))

\* .on("transactionHash", value => resolve(value))
Eth_OnTransactionHash(c) ==
    /\ calls[c].pc = "eth_wait"
    /\ ethTxs' = [ethTxs EXCEPT ![calls[c].tx].st = "hash"]
    /\ calls' = [calls EXCEPT ![c] = AfterSendEth(c, calls[c].tx)]
    /\ UNCHANGED <<channelMap, balanceProofMap, rebalanceProofMap, paymentNetworkMap,
                   signed, appTxs, ethTxCount, feeVars, watchVars>>

\* What the promise does when the broadcast fails: .on('error', error => { // reject(error) })
\* and catch (e) { // reject(e) } leave the promise as it is.
OnSendError(rec) == [rec EXCEPT !.pc = "eth_failed"]

Eth_OnError(c) ==
    /\ calls[c].pc = "eth_wait"
    /\ ethTxs' = [ethTxs EXCEPT ![calls[c].tx].st = "error"]
    /\ calls' = [calls EXCEPT ![c] = OnSendError(@)]
    /\ UNCHANGED <<channelMap, balanceProofMap, rebalanceProofMap, paymentNetworkMap,
                   signed, appTxs, ethTxCount, feeVars, watchVars>>

SendEthTransaction(c) ==
    \/ Eth_GetTransactionCount(c)
    \/ Eth_SendSigned(c)
    \/ Eth_OnTransactionHash(c)
    \/ Eth_OnError(c)

(***************************************************************************)
(* SDK.Deposit(amount, token)                                              *)
(***************************************************************************)

\* A faulty variant, for comparison: the approval is skipped.
DepositFirstTx_NoApproval(rec, amount, token) ==
    EnterSendEth(rec, IF token # ADDRESS_ZERO THEN 0 ELSE amount,
                 [method |-> "providerDeposit"], "dep_done")

\* if (token !== ADDRESS_ZERO) { approve, value 0; deposit, value 0 } else { deposit, amount }
DepositFirstTx(rec, amount, token) ==
    IF token # ADDRESS_ZERO
    THEN EnterSendEth(rec, 0, [method |-> "approve"], "dep_approved")
    ELSE EnterSendEth(rec, amount, [method |-> "providerDeposit"], "dep_done")

DEP_Call(c, amount, token) ==
    /\ CanCall(c)
    /\ calls' = [calls EXCEPT ![c] =
                    DepositFirstTx([IdleCall EXCEPT !.op = "Deposit", !.amount = amount,
                                                    !.token = token], amount, token)]
    /\ UNCHANGED <<channelMap, balanceProofMap, rebalanceProofMap, paymentNetworkMap,
                   signed, appTxs, ethTxs, ethTxCount, feeVars, watchVars>>

Deposit(c) == \E amount \in Amounts, token \in Tokens : DEP_Call(c, amount, token)

(***************************************************************************)
(* SDK.CloseChannel(userAddress, token)                                    *)
(***************************************************************************)

\* A field of a call() result; a name the result does not carry destructures to undefined.
Field(rec, name) == IF name \in DOMAIN rec THEN rec[name] ELSE Undefined

\* The call, up to the answer of channelMap(channelID).call() and the status check
CC_Call(c, userAddress, token) ==
    /\ CanCall(c)
    /\ LET ch == getChannelID(userAddress, token)
           status == channelMap[ch].status
           rec == [IdleCall EXCEPT !.op = "CloseChannel", !.user = userAddress,
                                   !.token = token, !.channelID = ch, !.status = status]
       IN calls' = [calls EXCEPT ![c] =
                       IF StatusNotOpen(status)
                       THEN Settle(rec, NotOpenOutcome)
                       ELSE [rec EXCEPT !.pc = "cc_proofs"]]
    /\ UNCHANGED <<channelMap, balanceProofMap, rebalanceProofMap, paymentNetworkMap,
                   signed, appTxs, ethTxs, ethTxCount, feeVars, watchVars>>

\* closeChannel(channelID, balance, nonce, additionalHash, partnerSignature,
\*              inAmount, inNonce, regulatorSignature, inProviderSignature).encodeABI()
CloseData(ch, bp, rp) ==
    [method |-> "closeChannel", channelID |-> ch,
     balance |-> Field(bp, "balance"), nonce |-> Field(bp, "nonce"),
     inAmount |-> Field(rp, "inAmount"), inNonce |-> Field(rp, "inNonce")]

\* Promise.all([balanceProofMap(channelID, cpProvider.address).call(),
\*              rebalanceProofMap(channelID).call()]): the two reads are answered one by
\* one, in either order; with both in hand the close call is encoded and sent
CC_ReadProof(c) ==
    /\ calls[c].pc = "cc_proofs"
    /\ \E which \in {"bp", "rp"} :
          /\ which \notin calls[c].got
          /\ LET ch == calls[c].channelID
                 rec == IF which = "bp"
                        THEN [calls[c] EXCEPT !.bp = balanceProofMap[<<ch, Provider>>],
                                              !.got = @ \cup {"bp"}]
                        ELSE [calls[c] EXCEPT !.rp = rebalanceProofMap[ch],
                                              !.got = @ \cup {"rp"}]
             IN calls' = [calls EXCEPT ![c] =
                             IF rec.got = {"bp", "rp"}
                             THEN EnterSendEth(rec, 0, CloseData(ch, rec.bp, rec.rp), "cc_done")
                             ELSE rec]
    /\ UNCHANGED <<channelMap, balanceProofMap, rebalanceProofMap, paymentNetworkMap,
                   signed, appTxs, ethTxs, ethTxCount, feeVars, watchVars>>

CloseChannel(c) ==
    \/ \E u \in Users, token \in Tokens : CC_Call(c, u, token)
    \/ CC_ReadProof(c)

(***************************************************************************)
(* The two ledgers.  The contracts are not part of the agent; what they do *)
(* with a submitted proof follows the protocol's rules for proofs: a proof *)
(* is taken only with a newer nonce and an amount that does not decrease.  *)
(***************************************************************************)

ProofAccepted(stored, amount, nonce) == nonce > stored.nonce /\ amount >= stored.amount

\* The application chain executes pending transaction i and writes its receipt.  A fee proof
\* that is accepted also settles the user's latest proof into the provider's balance proof.
AppChainExec(i) ==
    /\ appTxs[i].st = "pending"
    /\ LET tx == appTxs[i]
           a == tx.args
       IN CASE tx.method = "transfer" ->
                 LET key == <<a.channelID, a.channelID[1]>>
                     ok == ProofAccepted([amount |-> balanceProofMap[key].balance,
                                          nonce |-> balanceProofMap[key].nonce],
                                         a.balance, a.nonce)
                 IN /\ appTxs' = SetTxState(i, IF ok THEN "ok" ELSE "err")
                    /\ balanceProofMap' =
                          IF ok THEN [balanceProofMap EXCEPT
                                         ![key] = [balance |-> a.balance, nonce |-> a.nonce]]
                          ELSE balanceProofMap
                    /\ UNCHANGED <<rebalanceProofMap, feeProofMap>>
            [] tx.method = "proposeRebalance" ->
                 LET ok == ProofAccepted(rebalanceProofMap[a.channelID], a.amount, a.nonce)
                 IN /\ appTxs' = SetTxState(i, IF ok THEN "ok" ELSE "err")
                    /\ rebalanceProofMap' =
                          IF ok THEN [rebalanceProofMap EXCEPT
                                         ![a.channelID] = [amount |-> a.amount, nonce |-> a.nonce]]
                          ELSE rebalanceProofMap
                    /\ UNCHANGED <<balanceProofMap, feeProofMap>>
            [] tx.method = "submitFee" ->
                 LET key == <<a.channelID, Provider>>
                     ok == ProofAccepted(feeProofMap[a.token], a.amount, a.nonce)
                 IN /\ appTxs' = SetTxState(i, IF ok THEN "ok" ELSE "err")
                    /\ feeProofMap' =
                          IF ok THEN [feeProofMap EXCEPT
                                         ![a.token] = [amount |-> a.amount, nonce |-> a.nonce]]
                          ELSE feeProofMap
                    /\ balanceProofMap' =
                          IF ok THEN [balanceProofMap EXCEPT
                                         ![key] = arrearBalanceProofMap[a.channelID]]
                          ELSE balanceProofMap
                    /\ UNCHANGED rebalanceProofMap
            [] OTHER ->
                 /\ appTxs' = SetTxState(i, "ok")
                 /\ UNCHANGED <<balanceProofMap, rebalanceProofMap, feeProofMap>>
    /\ UNCHANGED <<channelMap, paymentNetworkMap, calls, signed, ethTxs, ethTxCount,
                   feeRateMap, arrearBalanceProofMap, watchVars>>

\* The channel leaves Open on the application chain (the user or the provider closed it).
ChannelCloses(ch) ==
    /\ channelMap[ch].status = StatusOpen
    /\ channelMap' = [channelMap EXCEPT ![ch].status = "Closing"]
    /\ UNCHANGED <<balanceProofMap, rebalanceProofMap, paymentNetworkMap, calls, signed,
                   appTxs, ethTxs, ethTxCount, feeVars, watchVars>>

\* The primary chain mines the accepted transaction that carries the account's next nonce.
EthMine(i) ==
    /\ ethTxs[i].st = "hash"
    /\ ethTxs[i].nonce = ethTxCount
    /\ ethTxs' = [ethTxs EXCEPT ![i].st = "mined"]
    /\ ethTxCount' = ethTxCount + 1
    /\ UNCHANGED <<channelMap, balanceProofMap, rebalanceProofMap, paymentNetworkMap, calls,
                   signed, appTxs, feeVars, watchVars>>

AppChain == \E i \in 1 .. Len(appTxs) : AppChainExec(i)
StatusChange == \E ch \in Channels : ChannelCloses(ch)
EthChain == \E i \in 1 .. Len(ethTxs) : EthMine(i)

(***************************************************************************)
(* The application chain's event log and the HttpWatcher that polls it.    *)
(***************************************************************************)

MaxBlocks == 2       \* blocks the application chain adds in one run
MaxStale == 1        \* how far behind the chain's head an answer of getBlockNumber() may be
MaxScans == 3        \* processAllEvent activations followed in one run
MaxRestarts == 1     \* restarts of the process in one run
MaxRegistrations == 2 \* calls of SDK.on in one run

\* start(): lastBlockNumber || currentBlockNumber - 10
CatchUpMargin == 10
\* The height of both chains when the agent is first started: the catch-up margin and a late
\* answer lie within the chain.
FirstHead == CatchUpMargin + MaxStale

\* .div(bn(10000)) in the Transfer handler
FeeDenominator == 10000

FeeRates == {0, 50}
SmallTransfer == 100     \* a transfer whose fee at 50/10000 is less than one unit
LargeTransfer == 1000    \* a transfer whose fee at 50/10000 is 5 units
TransferAmounts == {SmallTransfer, LargeTransfer}
ZeroHash == "0x0000000000000000000000000000000000000000000000000000000000000000"

\* new HttpWatcher(web3.eth, ...) and new HttpWatcher(CITA.base, ...) in SDK.Init
Watchers == {"eth", "cita"}

\* What the watcher section leaves alone.
callVars == <<channelMap, rebalanceProofMap, paymentNetworkMap, calls, ethTxs, ethTxCount>>

\* this.base.getBlockNumber() of the watcher's chain, answered by a node that is up to date
getBlockNumber(w) == IF w = "cita" THEN blockNumber ELSE ethBlockNumber

\* The events of the watched contract.  Those of the primary chain are handled by
\* ETH_EVENTS, which is imported from ../listener/eth_events: none of them is followed.
Log(w) == IF w = "cita" THEN events ELSE <<>>

\* A Transfer event as getPastEvents returns it.
TransferEvent(block, from, to, channelID, balance, transferAmount, additionalHash) ==
    [event |-> "Transfer", blockNumber |-> block,
     returnValues |-> [from |-> from, to |-> to, channelID |-> channelID,
                       balance |-> balance, transferAmount |-> transferAmount,
                       additionalHash |-> additionalHash]]

\* The user's transfer to the provider executes in a new block: the contract stores the
\* proof and emits Transfer with the cumulative balance.
UserTransfer(ch, a) ==
    /\ blockNumber < FirstHead + MaxBlocks
    /\ channelMap[ch].status = StatusOpen
    /\ LET proof == [balance |-> arrearBalanceProofMap[ch].balance + a,
                     nonce |-> arrearBalanceProofMap[ch].nonce + 1]
       IN /\ arrearBalanceProofMap' = [arrearBalanceProofMap EXCEPT ![ch] = proof]
          /\ blockNumber' = blockNumber + 1
          /\ events' = Append(events, TransferEvent(blockNumber + 1, ch[1], Provider, ch,
                                                    proof.balance, a, ZeroHash))
    /\ UNCHANGED <<callVars, balanceProofMap, signed, appTxs, feeProofMap, feeRateMap,
                   watcher, scans, ethBlockNumber, cpProvider, restarts, cbVars>>

\* A block without events of the watched contract.
EmptyBlock ==
    /\ blockNumber < FirstHead + MaxBlocks
    /\ blockNumber' = blockNumber + 1
    /\ UNCHANGED <<callVars, balanceProofMap, signed, appTxs, feeVars, events, watcher, scans,
                   ethBlockNumber, cpProvider, restarts, cbVars>>

\* The primary chain adds a block.
EthBlock ==
    /\ ethBlockNumber < FirstHead + MaxBlocks
    /\ ethBlockNumber' = ethBlockNumber + 1
    /\ UNCHANGED <<callVars, balanceProofMap, signed, appTxs, feeVars, blockNumber, events,
                   watcher, scans, cpProvider, restarts, cbVars>>

\* CITA_EVENTS.Transfer.filter: () => ({ to: cpProvider.address })
TransferFilter == [to |-> Provider]

\* The handlers of CITA_EVENTS, by the name of their event.
ConfirmEvents == {"UserProposeWithdraw", "ProposeCooperativeSettle"}
OnchainEvents == {"OnchainProviderWithdraw", "OnchainProviderDeposit", "OnchainUserDeposit",
                  "OnchainUserWithdraw", "OnchainOpenChannel",
                  "OnchainCooperativeSettleChannel", "OnchainSettleChannel"}
CITA_EVENTS == {"Transfer", "ConfirmProviderWithdraw"} \cup ConfirmEvents \cup OnchainEvents

\* filter: () => ({}) of every handler but Transfer's: a record without fields
EmptyFilter == <<>>

\* watchItem.listener[eventName].filter()
Filter(name) == IF name = "Transfer" THEN TransferFilter ELSE EmptyFilter

\* A faulty variant, for comparison: the letters are left as they are.
toLowerCase_Identity(str) == str

\* String.prototype.toLowerCase, on the spellings of addresses that occur: an address in
\* checksum spelling has capital letters, the same address from the account has none.
toLowerCase(str) ==
    CASE str = "CP" -> "cp"
      [] str = "USER1" -> "user1"
      [] str = "TOKENA" -> "tokena"
      [] str = "tokenA" -> "tokena"
      [] OTHER -> str

\* if (!returnValues[k] || returnValues[k].toLowerCase() !== filter[k].toLowerCase())
\*     filterResult = false
FilterResult(filter, returnValues) ==
    \A k \in DOMAIN filter :
        /\ k \in DOMAIN returnValues
        /\ returnValues[k] # ""
        /\ toLowerCase(returnValues[k]) = toLowerCase(filter[k])

\* processAllEvent: the event has a handler in the listener and passes its filter
Matches(ev) ==
    /\ ev.event \in CITA_EVENTS
    /\ FilterResult(Filter(ev.event), ev.returnValues)

\* ethPN.options.address
EthPNAddress == "ethPN"

\* What a handler can change while it runs.
World == [signed |-> signed, appTxs |-> appTxs, delivered |-> delivered, sends |-> sends]

\* The kinds of event SDK.on is called with by the handlers' callbacks.get(kind).
CallbackKinds == {"Transfer", "ProviderWithdraw", "ProviderDeposit", "UserDeposit",
                  "UserWithdraw", "UserForceWithdraw"}
\* The functions an application registers.
Callbacks == {"cb1", "cb2"}

\* if (callbacks.get(kind)) callbacks.get(kind)(null, payload)
Deliver(world, kind, e, payload) ==
    IF callbacks[kind] = Undefined THEN world
    ELSE [world EXCEPT !.delivered =
              Append(@, [kind |-> kind, to |-> callbacks[kind], event |-> e,
                         payload |-> payload, at |-> Len(registered)])]

\* Common.SendAppChainTX(action): the transaction joins those on their way to the
\* application chain.
Submitted(txs, method, args) == Append(txs, AppTx(0, method, args))

\* A faulty variant, for comparison: both events are answered with confirmUserWithdraw.
ConfirmMethod_Same(name) == "confirmUserWithdraw"

\* appPN.methods.confirmUserWithdraw / appPN.methods.confirmCooperativeSettle
ConfirmMethod(name) ==
    IF name = "UserProposeWithdraw" THEN "confirmUserWithdraw" ELSE "confirmCooperativeSettle"

\* The handlers of UserProposeWithdraw and ProposeCooperativeSettle: the message of the
\* primary contract's address, channelID, balance and lastCommitBlock is signed and the
\* confirmation is handed to SendAppChainTX with the signature.  e is the place of the
\* event in the log.
ConfirmHandler(world, name, e) ==
    LET rv == events[e].returnValues
        fields == [contract |-> EthPNAddress, channelID |-> rv.channelID,
                   balance |-> rv.balance, lastCommitBlock |-> rv.lastCommitBlock,
                   event |-> e]
    IN [world EXCEPT !.signed = @ \cup {[by |-> 0, kind |-> name, fields |-> fields]},
                     !.appTxs = Submitted(@, ConfirmMethod(name), fields)]

\* A faulty variant, for comparison: the balance of the withdrawal is raised by one.
providerWithdraw_Raised(token, balance, lastCommitBlock, signature) ==
    [method |-> "providerWithdraw", token |-> token, balance |-> balance + 1,
     lastCommitBlock |-> lastCommitBlock, signature |-> signature]

\* ethPN.methods.providerWithdraw(token, balance, lastCommitBlock, signature).encodeABI()
providerWithdraw(token, balance, lastCommitBlock, signature) ==
    [method |-> "providerWithdraw", token |-> token, balance |-> balance,
     lastCommitBlock |-> lastCommitBlock, signature |-> signature]

\* Common.SendEthTransaction(cpProvider.address, ethPN.options.address, 0, data), called
\* without await: the activation has asked for the transaction count when the handler
\* goes on.
StartSend(world, e, data) ==
    [world EXCEPT !.sends = Append(@, [event |-> e, from |-> cpProvider.address,
                                       to |-> EthPNAddress, value |-> 0, data |-> data,
                                       pc |-> "eth_nonce", ethNonce |-> 0, tx |-> 0])]

\* The handler of ConfirmProviderWithdraw.
ConfirmProviderWithdrawHandler(world, e) ==
    LET rv == events[e].returnValues
    IN StartSend(world, e, providerWithdraw(rv.token, rv.balance, rv.lastCommitBlock,
                                            rv.signature))

\* The callback kind a handler of an on-chain event looks up.
KindOf(name) ==
    CASE name = "OnchainProviderWithdraw" -> "ProviderWithdraw"
      [] name = "OnchainProviderDeposit" -> "ProviderDeposit"
      [] name \in {"OnchainUserDeposit", "OnchainOpenChannel"} -> "UserDeposit"
      [] name \in {"OnchainUserWithdraw", "OnchainCooperativeSettleChannel"} -> "UserWithdraw"
      [] name = "OnchainSettleChannel" -> "UserForceWithdraw"

\* The record a handler of an on-chain event hands to the callback; read is what the
\* handler read from the application chain, if it read anything.
Payload(name, ev, read) ==
    LET rv == ev.returnValues
        txhash == ev.transactionHash
    IN CASE name = "OnchainProviderWithdraw" ->
               [token |-> rv.token, amount |-> rv.amount, totalWithdraw |-> rv.amount,
                txhash |-> txhash]
         [] name = "OnchainProviderDeposit" ->
               [token |-> rv.token, amount |-> rv.amount, totalDeposit |-> rv.amount,
                txhash |-> txhash]
         [] name = "OnchainUserDeposit" ->
               [sender |-> rv.user, user |-> rv.user, type |-> 2, token |-> read,
                amount |-> rv.deposit, totalDeposit |-> rv.totalDeposit, txhash |-> txhash]
         [] name = "OnchainUserWithdraw" ->
               [user |-> rv.user, type |-> 1, token |-> read, amount |-> rv.amount,
                totalWithdraw |-> rv.withdraw, txhash |-> txhash]
         [] name = "OnchainOpenChannel" ->
               [sender |-> rv.user, user |-> rv.user, type |-> 1, token |-> rv.token,
                amount |-> rv.amount, totalDeposit |-> rv.amount, txhash |-> txhash]
         [] name = "OnchainCooperativeSettleChannel" ->
               [user |-> rv.user, type |-> 2, token |-> rv.token, amount |-> rv.balance,
                totalWithdraw |-> "", txhash |-> txhash]
         [] name = "OnchainSettleChannel" ->
               [closer |-> read, user |-> rv.user, token |-> rv.token,
                userSettleAmount |-> rv.userSettleAmount,
                providerSettleAmount |-> rv.providerSettleAmount, txhash |-> txhash]

\* A faulty variant, for comparison: the handler also confirms on the application chain.
OnchainHandler_Confirming(world, name, e, read) ==
    [Deliver(world, KindOf(name), e, Payload(name, events[e], read))
        EXCEPT !.appTxs = Submitted(@, "confirmUserWithdraw", [event |-> e])]

\* The handlers of the on-chain events: the event is put into the callback's form and
\* handed to the callback of its kind, if there is one.
OnchainHandler(world, name, e, read) ==
    Deliver(world, KindOf(name), e, Payload(name, events[e], read))

\* The handlers that reach their end without waiting for an answer of a node.
SyncHandlers ==
    ConfirmEvents \cup {"ConfirmProviderWithdraw", "OnchainProviderWithdraw",
                        "OnchainProviderDeposit", "OnchainOpenChannel",
                        "OnchainCooperativeSettleChannel"}

\* handler(event) of a handler that does not wait
Handler(world, name, e) ==
    CASE name \in ConfirmEvents -> ConfirmHandler(world, name, e)
      [] name = "ConfirmProviderWithdraw" -> ConfirmProviderWithdrawHandler(world, e)
      [] OTHER -> OnchainHandler(world, name, e, Undefined)

\* Where a handler that waits is after its call: the Transfer handler at its await of
\* channelMap(channelID).call(), the others at their await of channelMap or
\* closingChannelMap.
FirstAwait(name) == IF name = "Transfer" THEN "t_channel" ELSE "n_read"

\* The activation of processAllEvent(fromBlockNumber, toBlockNumber, watchItem) of watcher
\* w, up to its await of contract.getPastEvents; run tells which start of the process the
\* activation belongs to, and called lists the events whose handlers it has called.
NewScan(w, from, to) ==
    [w |-> w, run |-> restarts, fromBlockNumber |-> from, toBlockNumber |-> to, pc |-> "query",
     cause |-> "none", found |-> <<>>, i |-> 0, called |-> <<>>,
     token |-> Undefined, feeProofAmount |-> 0, road |-> 0, feeRate |-> 0,
     claims |-> <<>>]

\* for (let event of events): the position, from i on, of the next event that has a handler
\* and passes its filter; 0 when the loop runs off the end of the list.
RECURSIVE FirstMatch(_, _)
FirstMatch(rec, i) ==
    IF i > Len(rec.found) THEN 0
    ELSE IF Matches(Log(rec.w)[rec.found[i]]) THEN i ELSE FirstMatch(rec, i + 1)

\* await handler(event) for the event at position j.  A handler that does not wait has run
\* when the loop goes on to the event after; one that waits runs up to its first await.
\* Past the last event the activation returns.  The result is the activation and what the
\* handlers left behind.
RECURSIVE Advance(_, _, _)
HandleAt(rec, j, world) ==
    IF j = 0
    THEN [rec |-> [rec EXCEPT !.pc = "done", !.i = Len(rec.found) + 1], world |-> world]
    ELSE LET name == Log(rec.w)[rec.found[j]].event
             now == [rec EXCEPT !.called = Append(@, rec.found[j])]
         IN IF name \in SyncHandlers
            THEN Advance(now, j + 1, Handler(world, name, rec.found[j]))
            ELSE [rec |-> [now EXCEPT !.pc = FirstAwait(name), !.i = j],
                  world |-> world]

\* The loop from position i on.
Advance(rec, i, world) == HandleAt(rec, FirstMatch(rec, i), world)

\* The turn ends: the activation and what the handlers wrote become the state.
Commit(s, out) ==
    \E o \in {out} :
        /\ scans' = [scans EXCEPT ![s] = o.rec]
        /\ signed' = o.world.signed
        /\ appTxs' = o.world.appTxs
        /\ delivered' = o.world.delivered
        /\ sends' = o.world.sends

\* An answer arrived for activation s: the loop goes on from position i, in one turn.
Resume(s, rec, i, world) ==
    \E r \in {rec}, w \in {world} : Commit(s, Advance(r, i, w))

\* The event the activation is handling.
EventOf(rec) == Log(rec.w)[rec.found[rec.i]]

ScanIds == 1 .. MaxScans

\* The places of the Transfer handler at which it awaits an answer of the node.
HandlerPcs == {"t_channel", "t_feeProof", "t_feeRate", "t_balanceProof"}

\* start() calls processAllEvent for the watch item and does not await it.
Dispatch(w, from, to) == Append(scans, NewScan(w, from, to))

\* if (this.enabled == false) return, after the call of processAllEvent: where the loop of
\* start() is next, given where it would go on
AfterDispatch(w, pc) == IF watcher[w].enabled THEN pc ELSE "returned"

\* A faulty variant, for comparison: the next range starts one block late.
NextFrom_Late(currentBlockNumber) == currentBlockNumber + 2

\* lastBlockNumber = currentBlockNumber + 1
NextFrom(currentBlockNumber) == currentBlockNumber + 1

\* What only the poller's loop changes.
W_Frame == UNCHANGED <<callVars, balanceProofMap, signed, appTxs, feeVars, blockNumber, events,
                       ethBlockNumber, cpProvider, restarts, cbVars>>

\* start(), first pass: the head is read (the answer is d blocks behind the chain), the
\* checkpoint starts CatchUpMargin blocks behind it, and the first range is handed to
\* processAllEvent.
W_Start(w, d) ==
    /\ watcher[w].pc = "start"
    /\ LET current == getBlockNumber(w) - d
           last == IF watcher[w].lastBlockNumber # 0 THEN watcher[w].lastBlockNumber
                   ELSE current - CatchUpMargin
       IN IF last <= current
          THEN /\ Len(scans) < MaxScans
               /\ scans' = Dispatch(w, last, current)
               /\ watcher' = [watcher EXCEPT ![w] =
                     IF watcher[w].enabled
                     THEN [@ EXCEPT !.pc = "catchup", !.lastBlockNumber = NextFrom(current),
                                    !.currentBlockNumber = current]
                     ELSE [@ EXCEPT !.pc = "returned", !.lastBlockNumber = last,
                                    !.currentBlockNumber = current]]
          ELSE /\ scans' = scans
               /\ watcher' = [watcher EXCEPT ![w] =
                     [@ EXCEPT !.pc = "sleep", !.lastBlockNumber = last,
                               !.currentBlockNumber = current]]
    /\ W_Frame

\* start(), the catch-up loop after lastBlockNumber = currentBlockNumber + 1 and the next
\* await of getBlockNumber(): while (lastBlockNumber <= currentBlockNumber).
W_CatchUp(w, d) ==
    /\ watcher[w].pc = "catchup"
    /\ LET current == getBlockNumber(w) - d
           last == watcher[w].lastBlockNumber
       IN IF last <= current
          THEN /\ Len(scans) < MaxScans
               /\ scans' = Dispatch(w, last, current)
               /\ watcher' = [watcher EXCEPT ![w] =
                     IF watcher[w].enabled
                     THEN [@ EXCEPT !.lastBlockNumber = NextFrom(current),
                                    !.currentBlockNumber = current]
                     ELSE [@ EXCEPT !.pc = "returned", !.currentBlockNumber = current]]
          ELSE /\ scans' = scans
               /\ watcher' = [watcher EXCEPT ![w] =
                     [@ EXCEPT !.pc = "sleep", !.currentBlockNumber = current]]
    /\ W_Frame

\* The steady loop: await Common.Sleep(this.blockInterval), then
\* lastBlockNumber = currentBlockNumber + 1 and the call of getBlockNumber().
W_Sleep(w) ==
    /\ watcher[w].pc = "sleep"
    /\ watcher' = [watcher EXCEPT ![w] =
          [@ EXCEPT !.pc = "poll", !.lastBlockNumber = NextFrom(watcher[w].currentBlockNumber)]]
    /\ UNCHANGED scans
    /\ W_Frame

\* The steady loop once getBlockNumber() answers: if (lastBlockNumber > currentBlockNumber)
\* continue; else the range is handed to processAllEvent.
W_Poll(w, d) ==
    /\ watcher[w].pc = "poll"
    /\ LET current == getBlockNumber(w) - d
           last == watcher[w].lastBlockNumber
       IN IF last > current
          THEN /\ scans' = scans
               /\ watcher' = [watcher EXCEPT ![w] =
                     [@ EXCEPT !.pc = "sleep", !.currentBlockNumber = current]]
          ELSE /\ Len(scans) < MaxScans
               /\ scans' = Dispatch(w, last, current)
               /\ watcher' = [watcher EXCEPT ![w] =
                     [@ EXCEPT !.pc = AfterDispatch(w, "sleep"),
                               !.currentBlockNumber = current]]
    /\ W_Frame

\* getBlockNumber() rejects.  In the steady loop the try/catch logs the error and the loop
\* sleeps again; in the first pass and the catch-up loop nothing catches it, start() rejects
\* and the loop is over.
W_HeadFails(w) ==
    /\ watcher[w].pc \in {"start", "catchup", "poll"}
    /\ watcher' = [watcher EXCEPT ![w] =
          [@ EXCEPT !.pc = IF watcher[w].pc = "poll" THEN "sleep" ELSE "rejected"]]
    /\ UNCHANGED scans
    /\ W_Frame

\* stop(): this.enabled = false
W_Stop(w) ==
    /\ watcher[w].pc \notin {"off", "returned", "rejected"}
    /\ watcher[w].enabled
    /\ watcher' = [watcher EXCEPT ![w] = [@ EXCEPT !.enabled = FALSE]]
    /\ UNCHANGED scans
    /\ W_Frame

\* The loop of one watcher, whose node answers getBlockNumber() at most lag blocks late.
HttpWatcher(w, lag) ==
    \/ \E d \in 0 .. lag : W_Start(w, d)
    \/ \E d \in 0 .. lag : W_CatchUp(w, d)
    \/ W_Sleep(w)
    \/ \E d \in 0 .. lag : W_Poll(w, d)

\* CITA.base.accounts.privateKeyToAccount(cpPrivateKey): the account of a usable key has
\* an address.
privateKeyToAccount(usable) == [address |-> IF usable THEN Provider ELSE Undefined]

\* A faulty variant, for comparison: the watchers are started whatever the address.
NewWatcher_Always(address) ==
    [pc |-> "start", lastBlockNumber |-> 0, currentBlockNumber |-> 0, enabled |-> TRUE]

\* A watcher as its constructor and SDK.Init leave it: started when the provider's address
\* was derived from the key, never started otherwise.
NewWatcher(address) ==
    [pc |-> IF address # Undefined THEN "start" ELSE "off",
     lastBlockNumber |-> 0, currentBlockNumber |-> 0, enabled |-> TRUE]

\* The process dies and is started again: SDK.Init builds new watchers, which hold no
\* checkpoint, and the activations of processAllEvent that were under way are gone.
Restart ==
    /\ restarts < MaxRestarts
    /\ restarts' = restarts + 1
    /\ watcher' = [w \in Watchers |-> NewWatcher(cpProvider.address)]
    /\ scans' = [s \in DOMAIN scans |->
                   IF scans[s].pc \in {"done", "rejected"} THEN scans[s]
                   ELSE [scans[s] EXCEPT !.pc = "lost"]]
    /\ callbacks' = [k \in CallbackKinds |-> Undefined]
    /\ registered' = Append(registered, [kind |-> "Init", cb |-> Undefined])
    /\ sends' = [n \in DOMAIN sends |->
                   IF sends[n].pc \in {"eth_done", "eth_failed"} THEN sends[n]
                   ELSE [sends[n] EXCEPT !.pc = "lost"]]
    /\ UNCHANGED <<callVars, balanceProofMap, signed, appTxs, feeVars, blockNumber, events,
                   ethBlockNumber, cpProvider, delivered>>

\* What neither processAllEvent nor a handler changes.
S_Frame == UNCHANGED <<callVars, balanceProofMap, feeVars, blockNumber, events, watcher,
                       ethBlockNumber, cpProvider, restarts, callbacks, registered>>

\* What a step that ends no handler and calls no callback leaves alone.
H_Frame == UNCHANGED <<signed, appTxs, delivered, sends>>

\* getPastEvents("allEvents", {fromBlock, toBlock}) answers with the events of the range,
\* in log order, and the loop over them starts.
PAE_GetPastEvents(s) ==
    /\ s \in DOMAIN scans
    /\ scans[s].pc = "query"
    /\ LET log == Log(scans[s].w)
           inRange == {e \in 1 .. Len(log) :
                          /\ scans[s].fromBlockNumber <= log[e].blockNumber
                          /\ log[e].blockNumber <= scans[s].toBlockNumber}
           idx == [e \in 1 .. Len(log) |-> e]
           pick(e) == e \in inRange
       IN Resume(s, [scans[s] EXCEPT !.found = SelectSeq(idx, pick)], 1, World)
    /\ S_Frame

\* getPastEvents rejects: processAllEvent rejects, and start(), which did not await it, has
\* gone on.
PAE_QueryFails(s) ==
    /\ s \in DOMAIN scans
    /\ scans[s].pc = "query"
    /\ scans' = [scans EXCEPT ![s].pc = "rejected", ![s].cause = "query"]
    /\ H_Frame
    /\ S_Frame

\* A faulty variant, for comparison: every Transfer is taken for a payment.
IsPayment_Any(additionalHash) == TRUE

\* additionalHash === "0x0000000000000000000000000000000000000000000000000000000000000000"
IsPayment(additionalHash) == additionalHash = ZeroHash

\* let assetEvent: TRANSFER_EVENT = { from, to, token, amount: transferAmount,
\*     additionalHash, totalTransferredAmount: balance }
AssetEvent(rv, token) ==
    [from |-> rv.from, to |-> rv.to, token |-> token, amount |-> rv.transferAmount,
     additionalHash |-> rv.additionalHash, totalTransferredAmount |-> rv.balance]

\* Transfer handler: channelMap(channelID).call() answers, token = channel.token, the
\* Transfer callback is called if there is one and the event carries the zero hash, and
\* feeProofMap(token).call() is asked.
T_Channel(s) ==
    /\ s \in DOMAIN scans
    /\ scans[s].pc = "t_channel"
    /\ EventOf(scans[s]).event = "Transfer"
    /\ LET rv == EventOf(scans[s]).returnValues
           token == channelMap[rv.channelID].token
       IN /\ scans' = [scans EXCEPT ![s].pc = "t_feeProof", ![s].token = token]
          /\ delivered' = IF IsPayment(rv.additionalHash)
                          THEN Deliver(World, "Transfer", scans[s].found[scans[s].i],
                                       AssetEvent(rv, token)).delivered
                          ELSE delivered
    /\ UNCHANGED <<signed, appTxs, sends>>
    /\ S_Frame

\* A handler of an on-chain event that asked the application chain: channelMap(channelID)
\* answers with the channel's token, closingChannelMap(channelID) with the party that
\* closed; the callback is called, the handler returns and the loop goes on.
N_Read(s) ==
    /\ s \in DOMAIN scans
    /\ scans[s].pc = "n_read"
    /\ LET rec == scans[s]
           name == EventOf(rec).event
           channelID == EventOf(rec).returnValues.channelID
       IN \E closer \in {Provider, channelID[1]} :
              LET read == IF name = "OnchainSettleChannel" THEN closer
                          ELSE channelMap[channelID].token
              IN Resume(s, rec, rec.i + 1,
                            OnchainHandler(World, name, rec.found[rec.i], read))
    /\ S_Frame

\* { amount: feeProofAmount, nonce: road } = await appPN.methods.feeProofMap(token).call()
T_FeeProof(s) ==
    /\ s \in DOMAIN scans
    /\ scans[s].pc = "t_feeProof"
    /\ scans' = [scans EXCEPT ![s].pc = "t_feeRate",
                              ![s].feeProofAmount = feeProofMap[scans[s].token].amount,
                              ![s].road = feeProofMap[scans[s].token].nonce]
    /\ H_Frame
    /\ S_Frame

\* feeRate = await appPN.methods.feeRateMap(token).call(); a rate of 0 ends the handler and
\* the loop goes on, else balanceProofMap(channelID, cpProvider.address).call() is asked.
T_FeeRate(s) ==
    /\ s \in DOMAIN scans
    /\ scans[s].pc = "t_feeRate"
    /\ LET feeRate == feeRateMap[scans[s].token]
       IN IF feeRate = 0 THEN Resume(s, scans[s], scans[s].i + 1, World)
          ELSE /\ scans' = [scans EXCEPT ![s] =
                               [@ EXCEPT !.pc = "t_balanceProof", !.feeRate = feeRate]]
               /\ H_Frame
    /\ S_Frame

\* A faulty variant, for comparison: the quotient is rounded up.
BNDiv_Ceiling(a, b) == -((-a) \div b)

\* BN.div truncates towards zero
BNDiv(a, b) == IF a >= 0 THEN a \div b ELSE -((-a) \div b)

\* bn(feeProofAmount).add(bn(feeRate).mul(bn(balance).sub(bn(amount))).div(bn(10000)))
FeeAmount(feeProofAmount, feeRate, balance, amount) ==
    feeProofAmount + BNDiv(feeRate * (balance - amount), FeeDenominator)

\* feeNonce = Number(road) + 1
FeeNonce(rec) == rec.road + 1

\* Common.SendAppChainTX(action), called without await: the transaction is on its way when
\* the caller goes on.
SendAppChainTX(method, args) == Append(appTxs, AppTx(0, method, args))

\* Transfer handler, from the answer of balanceProofMap on: the fee proof is computed and
\* signed, submitFee is handed to SendAppChainTX, the handler returns and the loop goes on.
\* The activation keeps what the handler read next to what it claimed.
T_BalanceProof(s) ==
    /\ s \in DOMAIN scans
    /\ scans[s].pc = "t_balanceProof"
    /\ LET rec == scans[s]
           ev == EventOf(rec).returnValues
           amount == balanceProofMap[<<ev.channelID, Provider>>].balance
           fields == [channelID |-> ev.channelID, token |-> rec.token,
                      amount |-> FeeAmount(rec.feeProofAmount, rec.feeRate, ev.balance, amount),
                      nonce |-> FeeNonce(rec), event |-> rec.found[rec.i]]
           read == [event |-> rec.found[rec.i], feeProofAmount |-> rec.feeProofAmount,
                    road |-> rec.road, feeRate |-> rec.feeRate, balance |-> ev.balance,
                    amount |-> amount, feeAmount |-> fields.amount, feeNonce |-> fields.nonce]
       IN Resume(s, [rec EXCEPT !.claims = Append(@, read)], rec.i + 1,
                     [World EXCEPT !.signed = Sign(0, "feeProof", fields),
                                   !.appTxs = SendAppChainTX("submitFee", fields)])
    /\ S_Frame

\* One of the handler's calls of the node rejects: the handler rejects, and so does
\* processAllEvent, whose loop awaits the handler outside any try.
T_CallFails(s) ==
    /\ s \in DOMAIN scans
    /\ scans[s].pc \in HandlerPcs
    /\ scans' = [scans EXCEPT ![s].pc = "rejected", ![s].cause = "handler"]
    /\ H_Frame
    /\ S_Frame

TransferHandler(s) == T_Channel(s) \/ T_FeeProof(s) \/ T_FeeRate(s) \/ T_BalanceProof(s)

processAllEvent(s) == PAE_GetPastEvents(s) \/ TransferHandler(s)

\* The node answers the send of a transaction that SendAppChainTX issued: with a hash, and
\* the transaction waits for execution, or without one.
SATX_SendReturns(i) ==
    /\ appTxs[i].st = "sent"
    /\ appTxs[i].by = 0
    /\ \E st \in {"pending", "nohash"} : appTxs' = SetTxState(i, st)
    /\ UNCHANGED <<channelMap, balanceProofMap, rebalanceProofMap, paymentNetworkMap,
                   calls, signed, ethTxs, ethTxCount, feeVars, watchVars>>

Detached == \E i \in 1 .. Len(appTxs) : SATX_SendReturns(i)

\* What a step of a Common.SendEthTransaction that nobody awaits leaves alone.
DS_Frame == UNCHANGED <<channelMap, balanceProofMap, rebalanceProofMap, paymentNetworkMap,
                        calls, signed, appTxs, ethTxCount, feeVars, blockNumber, events,
                        watcher, scans, ethBlockNumber, cpProvider, restarts, callbacks,
                        registered, delivered>>

\* let nonce = await web3.eth.getTransactionCount(from)
DS_GetTransactionCount(n) ==
    /\ n \in DOMAIN sends
    /\ sends[n].pc = "eth_nonce"
    /\ sends' = [sends EXCEPT ![n] = [@ EXCEPT !.pc = "eth_build", !.ethNonce = ethTxCount]]
    /\ UNCHANGED ethTxs
    /\ DS_Frame

\* the raw transaction is signed and handed to web3.eth.sendSignedTransaction
DS_SendSigned(n) ==
    /\ n \in DOMAIN sends
    /\ sends[n].pc = "eth_build"
    /\ ethTxs' = Append(ethTxs, [by |-> 0, event |-> sends[n].event, to |-> sends[n].to,
                                 data |-> sends[n].data, value |-> sends[n].value,
                                 nonce |-> sends[n].ethNonce, st |-> "sent"])
    /\ sends' = [sends EXCEPT ![n] = [@ EXCEPT !.pc = "eth_wait", !.tx = Len(ethTxs) + 1]]
    /\ DS_Frame

\* .on("transactionHash", value => resolve(value)): the promise resolves and nobody reads it
DS_OnTransactionHash(n) ==
    /\ n \in DOMAIN sends
    /\ sends[n].pc = "eth_wait"
    /\ ethTxs' = [ethTxs EXCEPT ![sends[n].tx].st = "hash"]
    /\ sends' = [sends EXCEPT ![n].pc = "eth_done"]
    /\ DS_Frame

\* .on('error', ...): the promise stays pending
DS_OnError(n) ==
    /\ n \in DOMAIN sends
    /\ sends[n].pc = "eth_wait"
    /\ ethTxs' = [ethTxs EXCEPT ![sends[n].tx].st = "error"]
    /\ sends' = [sends EXCEPT ![n] = OnSendError(@)]
    /\ DS_Frame

\* The activations of Common.SendEthTransaction that the ConfirmProviderWithdraw handler
\* started: at most one for each event an activation of processAllEvent handles.
SendIds == 1 .. MaxBlocks * MaxScans

DetachedSend(n) ==
    \/ DS_GetTransactionCount(n)
    \/ DS_SendSigned(n)
    \/ DS_OnTransactionHash(n)
    \/ DS_OnError(n)

\* A faulty variant, for comparison: a kind that has a callback keeps it.
MapSet_KeepFirst(map, key, value) ==
    IF map[key] = Undefined THEN [map EXCEPT ![key] = value] ELSE map

\* Map.prototype.set(key, value)
MapSet(map, key, value) == [map EXCEPT ![key] = value]

\* SDK.on(event, callback): callbacks.set(event, callback)
On(kind, cb) ==
    /\ Len(registered) < MaxRegistrations
    /\ callbacks' = MapSet(callbacks, kind, cb)
    /\ registered' = Append(registered, [kind |-> kind, cb |-> cb])
    /\ UNCHANGED <<channelMap, balanceProofMap, rebalanceProofMap, paymentNetworkMap, calls,
                   signed, appTxs, ethTxs, ethTxCount, feeVars, blockNumber, events, watcher,
                   scans, ethBlockNumber, cpProvider, restarts, delivered, sends>>

\* The return values the application chain's contract gives its events, for the channel
\* ch: each event carries the fields of its declaration.
EventFields(name) ==
    CASE name = "UserProposeWithdraw" ->
             {"user", "channelID", "amount", "balance", "receiver", "lastCommitBlock"}
      [] name = "ProposeCooperativeSettle" -> {"channelID", "balance", "lastCommitBlock"}
      [] name = "ConfirmProviderWithdraw" ->
             {"token", "balance", "lastCommitBlock", "signature"}
      [] name = "OnchainProviderWithdraw" -> {"token", "amount", "balance"}
      [] name = "OnchainProviderDeposit" -> {"token", "amount"}
      [] name = "OnchainUserDeposit" -> {"channelID", "user", "deposit", "totalDeposit"}
      [] name = "OnchainUserWithdraw" -> {"channelID", "user", "amount", "withdraw"}
      [] name = "OnchainOpenChannel" -> {"user", "token", "amount", "channelID"}
      [] name = "OnchainCooperativeSettleChannel" -> {"channelID", "user", "token", "balance"}
      [] name = "OnchainSettleChannel" ->
             {"channelID", "user", "token", "userSettleAmount", "providerSettleAmount"}
      [] OTHER -> {"token", "amount", "nonce"}

ReturnValues(name, ch, block) ==
    LET all == [user |-> ch[1], channelID |-> ch, token |-> ch[2], receiver |-> ch[1],
                amount |-> 1, balance |-> 1, deposit |-> 1, totalDeposit |-> 1,
                withdraw |-> 1, userSettleAmount |-> 1, providerSettleAmount |-> 0,
                nonce |-> 1, lastCommitBlock |-> block, signature |-> "regulatorSignature"]
    IN [k \in EventFields(name) |-> all[k]]

\* An event as getPastEvents returns it.
ChainEvent(name, block, returnValues) ==
    [event |-> name, blockNumber |-> block, transactionHash |-> <<"tx", block>>,
     returnValues |-> returnValues]

\* The application chain's contract emits an event of the name in a new block.
Emit(name, ch) ==
    /\ blockNumber < FirstHead + MaxBlocks
    /\ blockNumber' = blockNumber + 1
    /\ events' = Append(events, ChainEvent(name, blockNumber + 1,
                                           ReturnValues(name, ch, blockNumber + 1)))
    /\ UNCHANGED <<callVars, balanceProofMap, signed, appTxs, feeVars, watcher, scans,
                   ethBlockNumber, cpProvider, restarts, cbVars>>

\* A hash of a message that travels with a transfer.
MessageHash == "0xmessage"

\* A transfer in the channel executes in a new block.  The receiver is spelled as the
\* transaction gave it; a transfer to the provider stores the user's proof, as UserTransfer
\* does, and the hash tells a payment from a transfer that belongs to a message.
TransferTo(ch, a, to, additionalHash) ==
    /\ blockNumber < FirstHead + MaxBlocks
    /\ channelMap[ch].status = StatusOpen
    /\ LET proof == [balance |-> arrearBalanceProofMap[ch].balance + a,
                     nonce |-> arrearBalanceProofMap[ch].nonce + 1]
       IN /\ arrearBalanceProofMap' =
                 IF toLowerCase(to) = Provider
                 THEN [arrearBalanceProofMap EXCEPT ![ch] = proof]
                 ELSE arrearBalanceProofMap
          /\ blockNumber' = blockNumber + 1
          /\ events' = Append(events,
                              TransferEvent(blockNumber + 1,
                                            IF toLowerCase(to) = Provider THEN ch[1]
                                            ELSE Provider,
                                            to, ch, proof.balance, a, additionalHash))
    /\ UNCHANGED <<callVars, balanceProofMap, signed, appTxs, feeProofMap, feeRateMap,
                   watcher, scans, ethBlockNumber, cpProvider, restarts, cbVars>>
(***************************************************************************)
(* SDK.GetAllTXs(token)                                                    *)
(***************************************************************************)

\* The provider's transfer to the user executes in a new block: the contract stores the
\* proof and emits Transfer with the cumulative balance.
ProviderTransfer(ch, a) ==
    /\ blockNumber < FirstHead + MaxBlocks
    /\ channelMap[ch].status = StatusOpen
    /\ LET key == <<ch, ch[1]>>
           proof == [balance |-> balanceProofMap[key].balance + a,
                     nonce |-> balanceProofMap[key].nonce + 1]
       IN /\ balanceProofMap' = [balanceProofMap EXCEPT ![key] = proof]
          /\ blockNumber' = blockNumber + 1
          /\ events' = Append(events, TransferEvent(blockNumber + 1, Provider, ch[1], ch,
                                                    proof.balance, a, ZeroHash))
    /\ UNCHANGED <<callVars, signed, appTxs, feeVars, watcher, scans, ethBlockNumber,
                   cpProvider, restarts, cbVars>>

\* appPN.getPastEvents(name, { filter }): the events of that name whose values match the
\* filter, in the order of the log, each with the hash of its transaction (here its place
\* in the log).  An event object has no property named nonce.
getPastEvents(name, filter) ==
    LET idx == [e \in 1 .. Len(events) |-> e]
        pick(e) == /\ events[e].event = name
                   /\ \A k \in DOMAIN filter :
                          toLowerCase(events[e].returnValues[k]) = toLowerCase(filter[k])
        sel == SelectSeq(idx, pick)
    IN [i \in 1 .. Len(sel) |-> events[sel[i]] @@ [transactionHash |-> sel[i]]]

\* cmpNonce(key): (a, b) => a[key] - b[key].  A property that is missing reads undefined,
\* the difference is NaN, and Array.prototype.sort takes NaN for 0.
cmpNonce(key, a, b) ==
    IF key \in DOMAIN a /\ key \in DOMAIN b THEN a[key] - b[key] ELSE 0

\* Array.prototype.sort(cmpNonce(key)): elements that compare 0 keep their order.
RECURSIVE sort(_, _)
sort(arr, key) ==
    IF arr = <<>> THEN <<>>
    ELSE LET front == sort(SubSeq(arr, 1, Len(arr) - 1), key)
             x == arr[Len(arr)]
             before == {i \in 1 .. Len(front) : cmpNonce(key, front[i], x) <= 0}
             p == IF before = {} THEN 0 ELSE CHOOSE i \in before : \A j \in before : j <= i
         IN SubSeq(front, 1, p) \o <<x>> \o SubSeq(front, p + 1, Len(front))

\* getTX(tx) with the value of lastBalance at the call:
\* { id: tx.transactionHash, amount: balance.sub(lastBalance), ...rest }
getTX(tx, lastBalance) ==
    LET rv == tx.returnValues
    IN [k \in DOMAIN rv \ {"channelID", "balance"} |-> rv[k]]
          @@ [id |-> tx.transactionHash, amount |-> rv.balance - lastBalance]

\* txs.map(tx => getTX(tx)): getTX leaves the balance of the entry in lastBalance, a
\* variable of GetAllTXs.  The result is the mapped list and lastBalance after it.
RECURSIVE map(_, _)
map(txs, lastBalance) ==
    IF txs = <<>> THEN [txs |-> <<>>, lastBalance |-> lastBalance]
    ELSE LET rest == map(Tail(txs), Head(txs).returnValues.balance)
         IN [txs |-> <<getTX(Head(txs), lastBalance)>> \o rest.txs,
             lastBalance |-> rest.lastBalance]

\* let lastBalance = new BN(0); the incoming list is sorted and mapped, then the outgoing
\* list; return { in: inTXs, out: outTXs }
AllTXs(inTXs, outTXs) ==
    LET incoming == map(sort(inTXs, "nonce"), 0)
        outgoing == map(sort(outTXs, "nonce"), incoming.lastBalance)
    IN [in |-> incoming.txs, out |-> outgoing.txs]

\* The call: both queries of Promise.all are sent
GT_Call(c, token) ==
    /\ CanCall(c)
    /\ calls' = [calls EXCEPT ![c] =
                    [IdleCall EXCEPT !.op = "GetAllTXs", !.token = token, !.pc = "gt_events"]]
    /\ UNCHANGED <<channelMap, balanceProofMap, rebalanceProofMap, paymentNetworkMap,
                   signed, appTxs, ethTxs, ethTxCount, feeVars, watchVars>>

\* The two queries are answered one by one, in either order; with both lists in hand the
\* history is computed and returned
GT_Read(c) ==
    /\ calls[c].pc = "gt_events"
    /\ \E which \in {"in", "out"} :
          /\ which \notin calls[c].got
          /\ LET rec == IF which = "in"
                        THEN [calls[c] EXCEPT
                                 !.inTXs = getPastEvents("Transfer", [to |-> cpProvider.address]),
                                 !.got = @ \cup {"in"}]
                        ELSE [calls[c] EXCEPT
                                 !.outTXs = getPastEvents("Transfer", [from |-> cpProvider.address]),
                                 !.got = @ \cup {"out"}]
             IN calls' = [calls EXCEPT ![c] =
                             IF rec.got = {"in", "out"}
                             THEN Settle(rec, Returned(AllTXs(rec.inTXs, rec.outTXs)))
                             ELSE rec]
    /\ UNCHANGED <<channelMap, balanceProofMap, rebalanceProofMap, paymentNetworkMap,
                   signed, appTxs, ethTxs, ethTxCount, feeVars, watchVars>>

GetAllTXs(c) ==
    \/ \E token \in Tokens : GT_Call(c, token)
    \/ GT_Read(c)

UserTransfers == \E ch \in Channels, a \in TransferAmounts : UserTransfer(ch, a)

(***************************************************************************)
(* Initial states and specifications.                                      *)
(***************************************************************************)

Parties == Users \cup {Provider}

\* The user's channel in the native asset is open; the one in the token has been closed.
InitLedgers ==
    /\ channelMap = [ch \in Channels |->
                        [status |-> IF ch[2] = ADDRESS_ZERO THEN StatusOpen ELSE "Closing",
                         token |-> ch[2]]]
    /\ balanceProofMap = [k \in Channels \X Parties |-> [balance |-> 0, nonce |-> 0]]
    /\ rebalanceProofMap = [ch \in Channels |-> [amount |-> 0, nonce |-> 0]]
    /\ ethTxCount = 0
    /\ feeProofMap = [t \in Tokens |-> [amount |-> 0, nonce |-> 0]]
    /\ arrearBalanceProofMap = [ch \in Channels |-> [balance |-> 0, nonce |-> 0]]
    /\ blockNumber = FirstHead
    /\ ethBlockNumber = FirstHead
    /\ events = <<>>

\* SDK.Init with a private key that is usable or not.
InitSDK(usable) ==
    /\ calls = [c \in CallIds |-> IdleCall]
    /\ signed = {}
    /\ appTxs = <<>>
    /\ ethTxs = <<>>
    /\ cpProvider = privateKeyToAccount(usable)
    /\ watcher = [w \in Watchers |-> NewWatcher(cpProvider.address)]
    /\ scans = <<>>
    /\ restarts = 0
    /\ callbacks = [k \in CallbackKinds |-> Undefined]
    /\ registered = <<>>
    /\ delivered = <<>>
    /\ sends = <<>>

\* SDK.Init with the provider's key.
InitAgent == InitSDK(TRUE)

\* The provider's balances of a token are whatever earlier deposits and rebalances left.
\* The token has never been deposited.
InitBalances ==
    \E b \in [providerOnchainBalance : 0 .. MaxOnchain, providerBalance : 0 .. MaxOnchain] :
        paymentNetworkMap = [t \in Tokens |->
                                IF t = ADDRESS_ZERO THEN b
                                ELSE [providerOnchainBalance |-> 0, providerBalance |-> 0]]

NoBalances ==
    paymentNetworkMap = [t \in Tokens |-> [providerOnchainBalance |-> 0, providerBalance |-> 0]]

\* No fee is charged on any token.
NoFees == feeRateMap = [t \in Tokens |-> 0]

\* The operator has set one rate for every token.
InitFeeRates == \E r \in FeeRates : feeRateMap = [t \in Tokens |-> r]

Init == InitLedgers /\ InitAgent /\ InitBalances /\ NoFees

\* The provider holds nothing yet.
InitEmpty == InitLedgers /\ InitAgent /\ NoBalances /\ NoFees

InitFee == InitLedgers /\ InitAgent /\ NoBalances /\ InitFeeRates

\* SDK.Init is given any key.
InitAnyKey == InitLedgers /\ (\E usable \in BOOLEAN : InitSDK(usable)) /\ NoBalances /\ NoFees

\* The watcher of the application chain and the fee proofs it submits.
NextFee ==
    \/ UserTransfers
    \/ EmptyBlock
    \/ HttpWatcher("cita", 0)
    \/ \E s \in ScanIds : processAllEvent(s)
    \/ Detached
    \/ AppChain

SpecFee == InitFee /\ [][NextFee]_vars

\* The watcher of the application chain against a node that answers every call and is up
\* to date.  The event loop runs every continuation that is ready, and every call of the
\* node is answered: no step of start() or of an activation of processAllEvent waits for
\* ever.
NextLive ==
    \/ \E ch \in Channels : UserTransfer(ch, LargeTransfer)
    \/ EmptyBlock
    \/ HttpWatcher("cita", 0)
    \/ \E s \in ScanIds : processAllEvent(s)

FairLive ==
    /\ WF_vars(HttpWatcher("cita", 0))
    /\ \A s \in ScanIds : WF_vars(processAllEvent(s))

SpecLive == InitFee /\ [][NextLive]_vars /\ FairLive

\* The watcher of the application chain against nodes that answer getBlockNumber() up to
\* MaxStale blocks behind the head.
NextStale ==
    \/ UserTransfers
    \/ EmptyBlock
    \/ HttpWatcher("cita", MaxStale)
    \/ \E s \in ScanIds : processAllEvent(s)

SpecStale == InitFee /\ [][NextStale]_vars

\* The watcher of the application chain and the contract's execution of its fee claims, in
\* a process that may die and be started again.
NextRestart ==
    \/ UserTransfers
    \/ EmptyBlock
    \/ HttpWatcher("cita", 0)
    \/ \E s \in ScanIds : processAllEvent(s)
    \/ Restart
    \/ Detached
    \/ AppChain

SpecRestart == InitFee /\ [][NextRestart]_vars

\* Both watchers from SDK.Init on, over chains whose blocks hold no event of the contracts.
NextInit ==
    \/ EmptyBlock
    \/ EthBlock
    \/ HttpWatcher("eth", 0)
    \/ HttpWatcher("cita", 0)
    \/ \E s \in ScanIds : PAE_GetPastEvents(s)

SpecInit == InitAnyKey /\ [][NextInit]_vars

\* The watcher of the application chain, which may be stopped at any time.
NextStop ==
    \/ UserTransfers
    \/ EmptyBlock
    \/ HttpWatcher("cita", 0)
    \/ W_Stop("cita")
    \/ \E s \in ScanIds : processAllEvent(s)

SpecStop == InitFee /\ [][NextStop]_vars

\* The same watcher under the scheduling of the runtime: a timer that is due fires, an
\* answer of the node is delivered, a turn that can run does run.  The chain owes no block.
NextHalt ==
    \/ \E ch \in Channels : UserTransfer(ch, LargeTransfer)
    \/ EmptyBlock
    \/ HttpWatcher("cita", 0)
    \/ W_Stop("cita")
    \/ \E s \in ScanIds : processAllEvent(s)

SpecHalt == InitFee /\ [][NextHalt]_vars /\ FairLive

\* The channel in the native asset.
NativeChannel == getChannelID("user1", ADDRESS_ZERO)

\* The spellings of a receiver in a Transfer event: the provider's address as the account
\* gives it, the same address in capital letters, and the user's.
Receivers == {Provider, "CP", "user1"}

\* The events whose handlers answer on a chain, and SubmitFee, for which CITA_EVENTS has no
\* handler.
AnsweredEvents == ConfirmEvents \cup {"ConfirmProviderWithdraw", "SubmitFee"}

\* The router of the application-chain watcher over events with and without a handler and
\* transfers to the provider and to others, and the handlers that answer on a chain.
NextRoute ==
    \/ \E name \in AnsweredEvents : Emit(name, NativeChannel)
    \/ \E to \in Receivers : TransferTo(NativeChannel, LargeTransfer, to, ZeroHash)
    \/ HttpWatcher("cita", 0)
    \/ \E s \in ScanIds : PAE_GetPastEvents(s)
    \/ \E s \in ScanIds : T_Channel(s)
    \/ \E s \in ScanIds : T_FeeProof(s)
    \/ \E s \in ScanIds : T_FeeRate(s)
    \/ \E n \in SendIds : DetachedSend(n)

SpecRoute == InitEmpty /\ [][NextRoute]_vars

\* The Transfer callback: payments and transfers that belong to a message, and
\* registrations of the callback at any time.
NextPayment ==
    \/ \E hash \in {ZeroHash, MessageHash} :
           TransferTo(NativeChannel, LargeTransfer, Provider, hash)
    \/ On("Transfer", "cb1")
    \/ HttpWatcher("cita", 0)
    \/ \E s \in ScanIds : PAE_GetPastEvents(s)
    \/ \E s \in ScanIds : T_Channel(s)
    \/ \E s \in ScanIds : T_FeeProof(s)
    \/ \E s \in ScanIds : T_FeeRate(s)

SpecPayment == InitEmpty /\ [][NextPayment]_vars

\* The kinds in the order in which an application registers for them.
KindOrder == <<"Transfer", "ProviderWithdraw", "ProviderDeposit", "UserDeposit",
               "UserWithdraw", "UserForceWithdraw">>

\* An application that has not registered yet calls SDK.on for one kind after the other, in
\* one turn, with the same callback.
OnEach(cb) ==
    /\ registered = <<>>
    /\ callbacks' = [k \in CallbackKinds |-> MapSet(callbacks, k, cb)[k]]
    /\ registered' = [i \in DOMAIN KindOrder |-> [kind |-> KindOrder[i], cb |-> cb]]
    /\ UNCHANGED <<channelMap, balanceProofMap, rebalanceProofMap, paymentNetworkMap, calls,
                   signed, appTxs, ethTxs, ethTxCount, feeVars, blockNumber, events, watcher,
                   scans, ethBlockNumber, cpProvider, restarts, delivered, sends>>

\* The on-chain events, and an application that registers its callback at some time.
NextNotify ==
    \/ \E name \in OnchainEvents : Emit(name, NativeChannel)
    \/ OnEach("cb1")
    \/ HttpWatcher("cita", 0)
    \/ \E s \in ScanIds : PAE_GetPastEvents(s)
    \/ \E s \in ScanIds : N_Read(s)

SpecNotify == InitEmpty /\ [][NextNotify]_vars

\* Registrations of callbacks, one over the other, while the provider's withdrawals and
\* deposits on the primary chain are reported; nobody registers for the deposits.
NextRegister ==
    \/ \E name \in {"OnchainProviderWithdraw", "OnchainProviderDeposit"} :
           Emit(name, NativeChannel)
    \/ \E cb \in Callbacks : On("ProviderWithdraw", cb)
    \/ HttpWatcher("cita", 0)
    \/ \E s \in ScanIds : PAE_GetPastEvents(s)

SpecRegister == InitEmpty /\ [][NextRegister]_vars

\* The watcher of the application chain against a node whose calls may fail.
NextFail ==
    \/ UserTransfers
    \/ EmptyBlock
    \/ HttpWatcher("cita", 0)
    \/ W_HeadFails("cita")
    \/ \E s \in ScanIds : processAllEvent(s)
    \/ \E s \in ScanIds : PAE_QueryFails(s)
    \/ \E s \in ScanIds : T_CallFails(s)

SpecFail == InitFee /\ [][NextFail]_vars

\* Balance proofs and rebalance proofs: SendAsset and ProposeReBalance calls side by side.
NextProofs ==
    \/ \E c \in CallIds : SendAsset(c)
    \/ \E c \in CallIds : ProposeReBalance(c)
    \/ AppChain
    \/ StatusChange

SpecProofs == Init /\ [][NextProofs]_vars

\* The operations that require an Open channel.
NextOpen ==
    \/ \E c \in CallIds : SendAsset(c)
    \/ \E c \in CallIds : ProposeReBalance(c)
    \/ \E c \in CallIds : CloseChannel(c)
    \/ \E c \in CallIds : SendEthTransaction(c)
    \/ AppChain
    \/ StatusChange

SpecOpen == InitEmpty /\ [][NextOpen]_vars

\* The operations that submit to the application chain and wait for the receipt.
NextSubmit ==
    \/ \E c \in CallIds : ProposeWithdraw(c)
    \/ \E c \in CallIds : ProposeReBalance(c)
    \/ \E c \in CallIds : SendAsset(c)
    \/ AppChain

SpecSubmit == InitEmpty /\ [][NextSubmit]_vars

NextWithdraw ==
    \/ \E c \in CallIds : ProposeWithdraw(c)
    \/ AppChain

SpecWithdraw == Init /\ [][NextWithdraw]_vars

\* ProposeReBalance calls alone, over provider balances of any size.
NextRebalance ==
    \/ \E c \in CallIds : ProposeReBalance(c)
    \/ AppChain

SpecRebalance == Init /\ [][NextRebalance]_vars

\* Deposits alone, over a stretch in which the primary chain mines no block: every
\* transaction is built on the same account nonce.
NextDeposit ==
    \/ \E c \in CallIds : Deposit(c)
    \/ \E c \in CallIds : SendEthTransaction(c)

SpecDeposit == InitEmpty /\ [][NextDeposit]_vars

\* The operations that submit to the primary chain.
NextEth ==
    \/ \E c \in CallIds : Deposit(c)
    \/ \E c \in CallIds : CloseChannel(c)
    \/ \E c \in CallIds : SendEthTransaction(c)
    \/ StatusChange
    \/ EthChain

SpecEth == InitEmpty /\ [][NextEth]_vars

\* The history of transfers, read while users and the provider go on paying.
NextHistory ==
    \/ \E ch \in Channels, a \in TransferAmounts : UserTransfer(ch, a)
    \/ \E ch \in Channels, a \in TransferAmounts : ProviderTransfer(ch, a)
    \/ \E c \in CallIds : GetAllTXs(c)

SpecHistory == InitEmpty /\ [][NextHistory]_vars

\* Every operation of the SDK and both watchers, with every failure.
Next ==
    \/ \E c \in CallIds : SendAsset(c)
    \/ \E c \in CallIds : ProposeReBalance(c)
    \/ \E c \in CallIds : ProposeWithdraw(c)
    \/ \E c \in CallIds : Deposit(c)
    \/ \E c \in CallIds : CloseChannel(c)
    \/ \E c \in CallIds : SendEthTransaction(c)
    \/ \E c \in CallIds : GetAllTXs(c)
    \/ \E w \in Watchers : HttpWatcher(w, MaxStale)
    \/ \E w \in Watchers : W_HeadFails(w)
    \/ \E w \in Watchers : W_Stop(w)
    \/ \E s \in ScanIds : processAllEvent(s)
    \/ \E s \in ScanIds : PAE_QueryFails(s)
    \/ \E s \in ScanIds : T_CallFails(s)
    \/ \E s \in ScanIds : N_Read(s)
    \/ \E n \in SendIds : DetachedSend(n)
    \/ \E kind \in CallbackKinds, cb \in Callbacks : On(kind, cb)
    \/ Restart
    \/ Detached
    \/ UserTransfers
    \/ \E ch \in Channels, a \in TransferAmounts : ProviderTransfer(ch, a)
    \/ \E ch \in Channels, a \in TransferAmounts, to \in Receivers :
           TransferTo(ch, a, to, MessageHash)
    \/ \E name \in OnchainEvents \cup AnsweredEvents, ch \in Channels : Emit(name, ch)
    \/ EmptyBlock
    \/ EthBlock
    \/ AppChain
    \/ StatusChange
    \/ EthChain

Spec == Init /\ [][Next]_vars

(***************************************************************************)
(* Properties.                                                             *)
(***************************************************************************)

RECURSIVE SumOver(_, _)
\* The sum of f over the finite set S.
SumOver(S, f) ==
    IF S = {} THEN 0
    ELSE LET x == CHOOSE y \in S : TRUE IN f[x] + SumOver(S \ {x}, f)

MaxOf(S) == CHOOSE x \in S : \A y \in S : y <= x

\* The places in appTxs of the calls of `method` for channel ch, and of the
\* transactions call c submitted.
ProofTxs(method, ch) ==
    {i \in 1 .. Len(appTxs) : appTxs[i].method = method /\ appTxs[i].args.channelID = ch}
AppTxsBy(c) == {i \in 1 .. Len(appTxs) : appTxs[i].by = c}
EthTxsBy(c) == {i \in 1 .. Len(ethTxs) : ethTxs[i].by = c}
SignedBy(c) == {m \in signed : m.by = c}

\* The calls of operation op made so far were given amounts above zero.
WellFormed(op) == \A c \in CallIds : calls[c].op = op => calls[c].amount > 0

\* C1: when every SendAsset call is given an amount above zero, the balance proofs the
\* calls sign and submit for one channel carry pairwise distinct, sequentially numbered
\* nonces (1, 2, ... from the initial nonce 0), and the latest of them carries the sum of
\* the amounts of all the calls: no amount is lost.
C1_DistinctSequentialProofs ==
    WellFormed("SendAsset") =>
        \A ch \in Channels :
            LET I == ProofTxs("transfer", ch) IN
            /\ \A i, j \in I : i # j => appTxs[i].args.nonce # appTxs[j].args.nonce
            /\ {appTxs[i].args.nonce : i \in I} = 1 .. Cardinality(I)
            /\ I # {} => appTxs[MaxOf(I)].args.balance
                            = SumOver(I, [i \in I |-> calls[appTxs[i].by].amount])

\* C2: when every ProposeReBalance call is given an amount above zero, the rebalance
\* proofs signed and submitted for one channel carry strictly increasing, gap-free nonces:
\* the k-th proof submitted carries nonce k, and no two share a nonce.
C2_RebalanceNoncesGapFree ==
    WellFormed("ProposeReBalance") =>
        \A ch \in Channels :
            LET I == ProofTxs("proposeRebalance", ch) IN
            \A i \in I : appTxs[i].args.nonce = Cardinality({j \in I : j <= i})

\* C3: no two fee proofs that Transfer handlers sign and submit for one token, each for
\* its own event, carry the same feeNonce.
C3_FeeNoncesDistinct ==
    \A i, j \in 1 .. Len(appTxs) :
        /\ appTxs[i].method = "submitFee" /\ appTxs[j].method = "submitFee"
        /\ appTxs[i].args.token = appTxs[j].args.token
        /\ appTxs[i].args.event # appTxs[j].args.event
        => appTxs[i].args.nonce # appTxs[j].args.nonce

\* C4: of two balance proofs of a channel, the one with the higher nonce never carries
\* the lower cumulative balance; likewise the amounts of two rebalance proofs.
C4_ProofAmountsNeverDecrease ==
    \A ch \in Channels :
        /\ \A i, j \in ProofTxs("transfer", ch) :
              appTxs[i].args.nonce < appTxs[j].args.nonce
                 => appTxs[i].args.balance <= appTxs[j].args.balance
        /\ \A i, j \in ProofTxs("proposeRebalance", ch) :
              appTxs[i].args.nonce < appTxs[j].args.nonce
                 => appTxs[i].args.amount <= appTxs[j].args.amount

OpenOps == {"SendAsset", "ProposeReBalance", "CloseChannel"}

\* C5: a SendAsset, ProposeReBalance or CloseChannel call that read a status other than
\* Open signs nothing and submits no transaction to either ledger.
C5_NotOpenSignsAndSubmitsNothing ==
    \A c \in CallIds :
        calls[c].op \in OpenOps /\ calls[c].status # "Open"
            => SignedBy(c) = {} /\ AppTxsBy(c) = {} /\ EthTxsBy(c) = {}

\* A call on the channel that was open at first found it Closing, and a CloseChannel
\* call was turned away too.
C5_Witness ==
    /\ \E c \in CallIds :
          /\ calls[c].op = "SendAsset" /\ calls[c].token = ADDRESS_ZERO
          /\ calls[c].status = "Closing" /\ calls[c].pc = "done"
    /\ \E c \in CallIds :
          calls[c].op = "CloseChannel" /\ calls[c].status = "Closing" /\ calls[c].pc = "done"

\* C6 as stated: an operation that requires an Open channel reports a non-Open status
\* as a returned value, not as a thrown error.
C6_NotOpenIsReturned ==
    \A c \in CallIds :
        calls[c].op \in OpenOps /\ calls[c].status # "Open" /\ calls[c].pc = "done"
            => calls[c].out.kind = "returned"

\* C6 amended: the call is settled as soon as the status is read, by throwing the error
\* "channel status is not open" (the promise rejects); nothing is returned.
C6_NotOpenIsThrown ==
    \A c \in CallIds :
        calls[c].op \in OpenOps /\ calls[c].status # "Open"
            => /\ calls[c].pc = "done"
               /\ calls[c].out = [kind |-> "thrown", value |-> "channel status is not open",
                                  hash |-> 0]

\* A ProposeReBalance call on the channel that was open at first found it Closing.
C6_Witness ==
    \E c \in CallIds :
        /\ calls[c].op = "ProposeReBalance" /\ calls[c].token = ADDRESS_ZERO
        /\ calls[c].status = "Closing" /\ calls[c].pc = "done"

\* amount <= onChainTotal and onChainTotal - amount <= trackedBalance, on the balances of
\* the token
WithdrawAllowed(c) ==
    LET pn == paymentNetworkMap[calls[c].token] IN
    /\ calls[c].amount <= pn.providerOnchainBalance
    /\ pn.providerOnchainBalance - calls[c].amount <= pn.providerBalance

\* C7: ProposeWithdraw submits its proposal only when amount <= onChainTotal and
\* onChainTotal - amount <= trackedBalance; in every other case it returns false and
\* submits nothing to either ledger.  (The balances of a token do not change in
\* SpecWithdraw, so the stored balances are the ones the call read.)
C7_WithdrawOnlyWithinBalances ==
    \A c \in CallIds :
        calls[c].op = "ProposeWithdraw" =>
            /\ AppTxsBy(c) # {} => WithdrawAllowed(c)
            /\ EthTxsBy(c) = {}
            /\ calls[c].pc # "pw_balance" /\ ~WithdrawAllowed(c)
                  => /\ calls[c].pc = "done"
                     /\ calls[c].out = [kind |-> "returned", value |-> "false", hash |-> 0]
                     /\ AppTxsBy(c) = {}
            /\ calls[c].pc # "pw_balance" /\ WithdrawAllowed(c)
                  => calls[c].out.value # "false"

\* One call was refused by the second check alone, another submitted its proposal.
C7_Witness ==
    /\ \E c \in CallIds :
          /\ calls[c].op = "ProposeWithdraw" /\ calls[c].pc = "done"
          /\ calls[c].out.value = "false"
          /\ calls[c].amount <= paymentNetworkMap[calls[c].token].providerOnchainBalance
    /\ \E c \in CallIds :
          /\ calls[c].op = "ProposeWithdraw" /\ AppTxsBy(c) # {}
          /\ calls[c].pc = "done" /\ calls[c].out.value = "confirm success"

SubmitOps == {"ProposeWithdraw", "ProposeReBalance", "SendAsset"}

\* C8: a submission to the application chain ends in exactly one outcome, decided by
\* the transaction hash and the receipt: "send CITA tx fail" exactly when no hash came
\* back (and then no receipt is awaited), "confirm fail" exactly when the receipt
\* carries an error, "confirm success" exactly when it carries none; the call does not
\* end before the one or the other is known.
C8_ThreeOutcomes ==
    \A c \in CallIds :
        calls[c].op \in SubmitOps /\ AppTxsBy(c) # {} =>
            LET st == appTxs[calls[c].tx].st
                out == calls[c].out
            IN /\ Cardinality(AppTxsBy(c)) = 1
               /\ calls[c].pc \in {"pw_receipt", "rb_receipt", "sa_receipt"} => st # "nohash"
               /\ calls[c].pc = "done" =>
                     /\ out.kind = "returned"
                     /\ out.value \in {"send CITA tx fail", "confirm fail", "confirm success"}
                     /\ out.value = "send CITA tx fail" <=> st = "nohash"
                     /\ out.value = "confirm fail" <=> st = "err"
                     /\ out.value = "confirm success" <=> st = "ok"

\* The three outcomes, side by side or one after the other.
C8_Witness ==
    /\ \E c \in CallIds : calls[c].pc = "done" /\ calls[c].out.value = "confirm fail"
    /\ \E c \in CallIds : calls[c].pc = "done" /\ calls[c].out.value = "confirm success"

\* C9: a primary-chain submission always completes.  The hash settles the caller's
\* await at once, and a failed broadcast surfaces as an error: the call whose
\* transaction the node refused ends with a thrown submission error.
C9_SubmissionSettles ==
    \A i \in 1 .. Len(ethTxs) :
        LET c == ethTxs[i].by IN
        /\ ethTxs[i].st = "hash" => ~(calls[c].pc = "eth_wait" /\ calls[c].tx = i)
        /\ ethTxs[i].st = "error" => calls[c].pc = "done" /\ calls[c].out.kind = "thrown"

\* The transactions of call c, in the order they were handed to the node.
RECURSIVE EthSeqBy(_, _)
EthSeqBy(c, n) ==
    IF n = 0 THEN <<>>
    ELSE IF ethTxs[n].by = c THEN Append(EthSeqBy(c, n - 1), n) ELSE EthSeqBy(c, n - 1)

\* C10: Deposit with the zero token hands the node one transaction, the deposit call
\* with value = amount, and no approval; with another token the approval (value 0)
\* first and the deposit call, value 0, only once the approval's hash has come back; it
\* returns the deposit transaction's hash.
C10_DepositOrder ==
    \A c \in CallIds :
        calls[c].op = "Deposit" =>
            LET T == EthSeqBy(c, Len(ethTxs))
                done == calls[c].pc = "done"
            IN IF calls[c].token = ADDRESS_ZERO
               THEN /\ Len(T) <= 1
                    /\ Len(T) = 1 => /\ ethTxs[T[1]].data.method = "providerDeposit"
                                     /\ ethTxs[T[1]].value = calls[c].amount
                    /\ done => Len(T) = 1 /\ calls[c].out = ReturnedHash(T[1])
               ELSE /\ Len(T) <= 2
                    /\ Len(T) >= 1 => /\ ethTxs[T[1]].data.method = "approve"
                                      /\ ethTxs[T[1]].value = 0
                    /\ Len(T) = 2 => /\ ethTxs[T[2]].data.method = "providerDeposit"
                                     /\ ethTxs[T[2]].value = 0
                                     /\ ethTxs[T[1]].st \in {"hash", "mined"}
                    /\ done => Len(T) = 2 /\ calls[c].out = ReturnedHash(T[2])

\* A deposit of a token and a deposit of the native asset have both returned.
C10_Witness ==
    /\ \E c \in CallIds : /\ calls[c].op = "Deposit" /\ calls[c].token # ADDRESS_ZERO
                          /\ calls[c].pc = "done" /\ calls[c].amount = 1
    /\ \E c \in CallIds : /\ calls[c].op = "Deposit" /\ calls[c].token = ADDRESS_ZERO
                          /\ calls[c].pc = "done" /\ calls[c].amount = 1

(***************************************************************************)
(* The two pollers.                                                        *)
(***************************************************************************)

\* The activations of processAllEvent that watcher w started.
ScansOf(w) == {s \in DOMAIN scans : scans[s].w = w}

\* Block b lies in a range that watcher w handed to processAllEvent.
Covered(w, b) ==
    \E s \in ScansOf(w) : scans[s].fromBlockNumber <= b /\ b <= scans[s].toBlockNumber

\* The block at which watcher w started: the first block of its first range.
StartBlock(w) == scans[CHOOSE s \in ScansOf(w) : \A t \in ScansOf(w) : s <= t].fromBlockNumber

\* Activation s has called the handler of the event at position e of the log.
DispatchedBy(s, e) ==
    \E j \in 1 .. Len(scans[s].found) : scans[s].found[j] = e /\ j <= scans[s].i

\* Watcher w has called the handler of the event at position e of its log.
Dispatched(w, e) == \E s \in ScansOf(w) : DispatchedBy(s, e)

\* The positions an event can take in the log of the application chain.
EventIds == 1 .. MaxBlocks

\* The event at position e passes the filter and its block is one the watcher has read as
\* the head, or an earlier one.
ToDispatch(w, e) ==
    /\ e \in DOMAIN Log(w)
    /\ Matches(Log(w)[e])
    /\ ScansOf(w) # {}
    /\ StartBlock(w) <= Log(w)[e].blockNumber
    /\ Log(w)[e].blockNumber <= watcher[w].currentBlockNumber

\* Every block from the start to the head last read lies in a range handed to
\* processAllEvent.
NoGap(w) ==
    ScansOf(w) # {} =>
        \A b \in StartBlock(w) .. watcher[w].currentBlockNumber : Covered(w, b)

Disjoint(s, t) ==
    \/ scans[s].toBlockNumber < scans[t].fromBlockNumber
    \/ scans[t].toBlockNumber < scans[s].fromBlockNumber

\* C12: without duplication.  The ranges one watcher hands to processAllEvent are pairwise
\* disjoint, also after a tick that was skipped because the head read was below the
\* checkpoint, and no event has its handler called twice.
C12_NoDuplication ==
    \A w \in Watchers :
        /\ \A s, t \in ScansOf(w) : s # t => Disjoint(s, t)
        /\ \A e \in EventIds : Cardinality({s \in ScansOf(w) : DispatchedBy(s, e)}) <= 1

\* The events of the range of activation s that pass the filter.
MatchingIn(s) ==
    {e \in DOMAIN Log(scans[s].w) :
        /\ Matches(Log(scans[s].w)[e])
        /\ scans[s].fromBlockNumber <= Log(scans[s].w)[e].blockNumber
        /\ Log(scans[s].w)[e].blockNumber <= scans[s].toBlockNumber}

\* Activation s has called the handler of every event of its range that passes the filter.
AllDispatched(s) == \A e \in MatchingIn(s) : DispatchedBy(s, e)

\* C13: the checkpoint follows the dispatch.  lastBlockNumber lies past a range only when
\* the handlers of all events of the range that pass the filter have been called.
C13_CheckpointAfterDispatch ==
    \A w \in Watchers : \A s \in ScansOf(w) :
        watcher[w].lastBlockNumber > scans[s].toBlockNumber => AllDispatched(s)

\* A later activation of the same watcher scans the whole range of activation s again.
ScannedAgain(s) ==
    \E t \in ScansOf(scans[s].w) :
        /\ t > s
        /\ scans[t].fromBlockNumber <= scans[s].fromBlockNumber
        /\ scans[s].toBlockNumber <= scans[t].toBlockNumber

\* C14: a failed call of the node drops no range.  When the event query of a range has
\* failed, the checkpoint is not moved past the range unless the range is scanned again.
C14_FailedRangeRetried ==
    \A w \in Watchers : \A s \in ScansOf(w) :
        (scans[s].cause = "query" /\ watcher[w].lastBlockNumber > scans[s].toBlockNumber)
            => ScannedAgain(s)

\* C15: a failing handler is isolated.  When the handler of an event has failed, the
\* handlers of the events after it in the same range are still called.
C15_HandlerFailureIsolated ==
    \A s \in DOMAIN scans :
        (scans[s].cause = "handler" /\ scans[s].pc = "rejected") => AllDispatched(s)

\* The fee claims that the handler of the event at position e signed and submitted: the
\* activation and the place in its record.
ClaimsFor(e) ==
    {p \in ScanIds \X (1 .. MaxBlocks) :
        /\ p[1] \in DOMAIN scans
        /\ p[2] \in DOMAIN scans[p[1]].claims
        /\ scans[p[1]].claims[p[2]].event = e}

\* C16: redelivery changes nothing.  However often an event is delivered, its handler
\* signs and submits at most one fee proof.
C16_RedeliverySignsNothing == \A e \in EventIds : Cardinality(ClaimsFor(e)) <= 1

\* The activations that watcher w started in run r of the process.
ScansOfRun(w, r) == {s \in ScansOf(w) : scans[s].run = r}

\* C17: a restart does not skip.  A range that was handed to processAllEvent and whose
\* processing had not finished when the process died is not behind the first block that
\* the watcher scans in a later run.
C17_RestartResumesBefore ==
    \A w \in Watchers : \A s \in ScansOf(w) :
        scans[s].pc = "lost" =>
            \A t \in ScansOf(w) :
                scans[t].run > scans[s].run =>
                    \E u \in ScansOfRun(w, scans[t].run) :
                        scans[u].fromBlockNumber <= scans[s].fromBlockNumber

\* A step in which watcher w hands a range to processAllEvent.
StartsScan(w) == ScansOf(w)' # ScansOf(w)

\* C18: stopping is cooperative.  Once stop() has been called the watcher hands no further
\* range to processAllEvent.
C18_NoScanAfterStop ==
    [][\A w \in Watchers : ~watcher[w].enabled => ~StartsScan(w)]_vars

\* Watcher w has been started: start() is running or has run.
Started(w) == watcher[w].pc # "off"

\* C19: no address, no poller.  When no address was derived from the key, neither watcher
\* is ever started and no range is ever scanned; when one was derived, both are started.
C19_PollersNeedAddress ==
    /\ cpProvider.address = Undefined =>
           \A w \in Watchers : ~Started(w) /\ ScansOf(w) = {}
    /\ cpProvider.address # Undefined => \A w \in Watchers : Started(w)

\* With an address both watchers run and each has handed a range to processAllEvent.
C19_Witness ==
    /\ cpProvider.address # Undefined
    /\ \A w \in Watchers : Started(w) /\ ScansOf(w) # {}

Abs(n) == IF n >= 0 THEN n ELSE -n

\* The quotient of n by d > 0 rounded towards zero: the remainder is smaller than d and
\* has the sign of n.
QuotientTowardsZero(n, d) ==
    CHOOSE q \in -(Abs(n) \div d) - 1 .. (Abs(n) \div d) + 1 :
        LET r == n - q * d
        IN Abs(r) < d /\ (r = 0 \/ (r > 0) = (n > 0))

\* The quotient of n by d > 0 rounded down.
QuotientFloor(n, d) ==
    CHOOSE q \in -(Abs(n) \div d) - 1 .. (Abs(n) \div d) + 1 :
        q * d <= n /\ n < (q + 1) * d

\* Every fee claim that a Transfer handler has made, with what the handler had read.
FeeClaims == UNION {{scans[s].claims[k] : k \in DOMAIN scans[s].claims} : s \in DOMAIN scans}

\* The events whose handler activation s has run to its end.
Handled(s) ==
    {e \in DOMAIN Log(scans[s].w) :
        \E j \in 1 .. Len(scans[s].found) :
            /\ scans[s].found[j] = e
            /\ Matches(Log(scans[s].w)[e])
            /\ j < scans[s].i}

\* The fee rate of the token of the channels that are open.
RateInForce == feeRateMap[ADDRESS_ZERO]

\* One fee claim for each delivery when a fee rate is set, none when it is 0: what each
\* activation has signed and what has been handed to SendAppChainTX.
OneClaimPerDelivery ==
    /\ \A s \in DOMAIN scans :
           Len(scans[s].claims) = IF RateInForce = 0 THEN 0 ELSE Cardinality(Handled(s))
    /\ Cardinality(AppTxsBy(0)) = SumOver(DOMAIN scans, [s \in DOMAIN scans |-> Len(scans[s].claims)])
    /\ RateInForce = 0 => SignedBy(0) = {}

C29_RangesInOrder ==
    \A s, t \in ScansOf("cita") :
        (/\ scans[s].run = scans[t].run
         /\ scans[s].toBlockNumber < scans[t].fromBlockNumber
         /\ \E e \in MatchingIn(t) : DispatchedBy(t, e))
            => AllDispatched(s)

\* C30: one nonce, one transaction.  Any two transactions that SendEthTransaction has built
\* for the provider's account carry different account nonces; so do the approval and the
\* deposit of one Deposit call.
C30_NoncesDiffer ==
    \A i, j \in DOMAIN ethTxs : i # j => ethTxs[i].nonce # ethTxs[j].nonce

\* C24: the close call carries both proofs.  Every closeChannel transaction handed to the
\* primary chain carries the amount and the nonce of the rebalance proof that the
\* application chain stores for the channel.
C24_CloseCarriesRebalanceProof ==
    \A i \in DOMAIN ethTxs :
        ethTxs[i].data.method = "closeChannel" =>
            /\ ethTxs[i].data.inAmount # Undefined
            /\ ethTxs[i].data.inNonce # Undefined

\* The ProposeReBalance calls on an Open channel that have read the stored rebalance proof
\* and the provider's balance.
DecidedRebalances ==
    {c \in CallIds : /\ calls[c].op = "ProposeReBalance"
                     /\ calls[c].status = StatusOpen
                     /\ calls[c].pc \notin {"rb_balance", "rb_proof"}}

\* The rebalance proof that call c is to sign: the amount it read plus the amount asked
\* for, under the nonce it read plus one.
NewRebalanceProof(c) ==
    [channelID |-> calls[c].channelID, amount |-> calls[c].balance + calls[c].amount,
     nonce |-> calls[c].nonce + 1]

\* C23: the funds check of ProposeReBalance.  A call on an Open channel whose amount less
\* the stored rebalance amount exceeds the provider's balance returns false and has signed
\* and submitted nothing; any other call signs one rebalance proof, of the stored amount
\* plus the amount asked for under the stored nonce plus one, and submits that proof once.
C23_RebalanceFundsCheck ==
    \A c \in DecidedRebalances :
        IF calls[c].amount - calls[c].balance > calls[c].providerBalance
        THEN /\ calls[c].pc = "done"
             /\ calls[c].out = Returned("false")
             /\ SignedBy(c) = {}
             /\ AppTxsBy(c) = {}
        ELSE /\ SignedBy(c) = {[by |-> c, kind |-> "rebalanceProof",
                                fields |-> NewRebalanceProof(c)]}
             /\ Cardinality(AppTxsBy(c)) = IF calls[c].pc = "rb_build" THEN 0 ELSE 1
             /\ \A i \in AppTxsBy(c) : /\ appTxs[i].method = "proposeRebalance"
                                       /\ appTxs[i].args = NewRebalanceProof(c)

\* One call, for an amount of 1, was turned down for lack of funds, and another has
\* submitted its proof under the stored nonce plus one.
C23_Witness ==
    /\ \E c \in DecidedRebalances : calls[c].amount = 1 /\ calls[c].out = Returned("false")
    /\ \E c \in DecidedRebalances :
           \E i \in AppTxsBy(c) : /\ appTxs[i].args.amount = calls[c].balance + calls[c].amount
                                  /\ appTxs[i].args.nonce = calls[c].nonce + 1

\* The Transfer handler of activation s takes the step on which it calls the callback: the
\* answer of channelMap has arrived.
TransferRead(s) ==
    /\ s \in DOMAIN scans
    /\ scans[s].pc = "t_channel"
    /\ scans'[s].pc = "t_feeProof"

\* The call of the Transfer callback for the event that activation s is handling.
TransferDelivery(s) ==
    LET rv == EventOf(scans[s]).returnValues
    IN [kind |-> "Transfer", to |-> callbacks["Transfer"],
        event |-> scans[s].found[scans[s].i], at |-> Len(registered),
        payload |-> [from |-> rv.from, to |-> rv.to,
                     token |-> channelMap[rv.channelID].token, amount |-> rv.transferAmount,
                     additionalHash |-> ZeroHash, totalTransferredAmount |-> rv.balance]]

\* C21: only payments reach the Transfer callback.  The step of the Transfer handler that
\* follows the answer of channelMap calls the callback once when a callback is registered
\* for Transfer and the event carries the zero hash, and calls nothing otherwise; no other
\* step calls it.
C21_PaymentsOnly ==
    [][/\ \A s \in ScanIds :
              TransferRead(s) =>
                  delivered' =
                      IF /\ callbacks["Transfer"] # Undefined
                         /\ EventOf(scans[s]).returnValues.additionalHash = ZeroHash
                      THEN Append(delivered, TransferDelivery(s))
                      ELSE delivered
       /\ delivered' # delivered => \E s \in ScanIds : TransferRead(s)]_vars

\* One activation has handled a payment and, after it, a transfer that belongs to a
\* message: the callback was called for the payment and not for the other.
C21_Witness ==
    \E s \in DOMAIN scans :
        /\ scans[s].pc = "done"
        /\ Len(scans[s].found) = 2
        /\ events[scans[s].found[1]].returnValues.additionalHash = ZeroHash
        /\ events[scans[s].found[2]].returnValues.additionalHash = MessageHash
        /\ \E n \in DOMAIN delivered : delivered[n].event = scans[s].found[1]
        /\ \A n \in DOMAIN delivered : delivered[n].event # scans[s].found[2]

\* The callback that the first n registrations leave for a kind: that of the latest
\* registration for the kind since SDK.Init last made a new Map, if there is one.
LastRegistered(kind, n) ==
    LET idx == {i \in 1 .. n : registered[i].kind \in {kind, "Init"}}
    IN IF idx = {} THEN Undefined
       ELSE registered[CHOOSE i \in idx : \A j \in idx : j <= i].cb

\* The calls of callbacks for the event at position e of the log.
DeliveriesOf(e) == {n \in DOMAIN delivered : delivered[n].event = e}

\* C22: the latest registration wins.  Each kind of event has the callback that was
\* registered for it last, and none when none was registered; an event is handed to the
\* callback its kind had when the handler ran, once for each time its handler is called,
\* and to nobody when the kind had none, and no activation fails over it.
C22_LatestRegistrationWins ==
    /\ \A k \in CallbackKinds : callbacks[k] = LastRegistered(k, Len(registered))
    /\ \A n \in DOMAIN delivered :
           /\ delivered[n].to # Undefined
           /\ delivered[n].to = LastRegistered(delivered[n].kind, delivered[n].at)
    /\ \A e \in DOMAIN events :
           Cardinality(DeliveriesOf(e))
               <= Cardinality({s \in DOMAIN scans : DispatchedBy(s, e)})
    /\ \A k \in CallbackKinds :
           callbacks[k] = Undefined => \A n \in DOMAIN delivered : delivered[n].kind # k
    /\ \A s \in DOMAIN scans : scans[s].pc # "rejected"

\* A second callback was registered over the first for the provider's withdrawals and a
\* withdrawal was handed to it, and a deposit, for which nobody registered, was handled
\* and handed to nobody.
C22_Witness ==
    /\ Len(registered) = 2
    /\ registered[1].cb # registered[2].cb
    /\ \E n \in DOMAIN delivered : delivered[n].at = 2 /\ delivered[n].to = registered[2].cb
    /\ \E s \in DOMAIN scans, e \in DOMAIN events :
           /\ DispatchedBy(s, e)
           /\ events[e].event = "OnchainProviderDeposit"
           /\ DeliveriesOf(e) = {}

\* The activations of processAllEvent that have called the handler of the event at
\* position e of the log.
DispatchesOf(e) == {s \in DOMAIN scans : DispatchedBy(s, e)}

\* What the handlers have signed, submitted to the application chain, and sent or are
\* about to send to the primary chain on behalf of the event at position e of the log.
SignedFor(e) == {m \in signed : m.by = 0 /\ m.fields.event = e}
AppTxsFor(e) == {i \in DOMAIN appTxs : appTxs[i].by = 0 /\ appTxs[i].args.event = e}
EthTxsFor(e) == {i \in DOMAIN ethTxs : ethTxs[i].by = 0 /\ ethTxs[i].event = e}
SendsFor(e) == {n \in DOMAIN sends : sends[n].event = e}

\* The positions of the events of a name in the log.
EventsNamed(names) == {e \in DOMAIN events : events[e].event \in names}

\* C25: one confirmation for each withdrawal or settlement proposed.  When the handler of a
\* UserProposeWithdraw or ProposeCooperativeSettle event has been called, one message of
\* the primary contract's address, the channel, the balance and the last commit block of
\* the event is signed, and one call of confirmUserWithdraw, or confirmCooperativeSettle,
\* with the channel and that signature is on its way to the application chain; nothing
\* goes to the primary chain, and nothing is signed or submitted before the handler is
\* called.
C25_OneConfirmation ==
    \A e \in EventsNamed(ConfirmEvents) :
        LET rv == events[e].returnValues
            message == [contract |-> EthPNAddress, channelID |-> rv.channelID,
                        balance |-> rv.balance, lastCommitBlock |-> rv.lastCommitBlock,
                        event |-> e]
        IN /\ Cardinality(AppTxsFor(e)) = Cardinality(DispatchesOf(e))
           /\ SignedFor(e) = IF DispatchesOf(e) = {} THEN {}
                             ELSE {[by |-> 0, kind |-> events[e].event, fields |-> message]}
           /\ \A i \in AppTxsFor(e) :
                  /\ appTxs[i].method = IF events[e].event = "UserProposeWithdraw"
                                        THEN "confirmUserWithdraw"
                                        ELSE "confirmCooperativeSettle"
                  /\ appTxs[i].args = message
           /\ EthTxsFor(e) = {}
           /\ SendsFor(e) = {}

\* The handlers of a proposed withdrawal and of a proposed settlement have been called and
\* their confirmations are on their way.
C25_Witness ==
    /\ \E e \in EventsNamed({"UserProposeWithdraw"}) :
           DispatchesOf(e) # {} /\ AppTxsFor(e) # {}
    /\ \E e \in EventsNamed({"ProposeCooperativeSettle"}) :
           DispatchesOf(e) # {} /\ AppTxsFor(e) # {}

\* The Common.SendEthTransaction activations for the event at position e that have handed
\* their transaction to the node.
BroadcastFor(e) == {n \in SendsFor(e) : sends[n].pc \in {"eth_wait", "eth_done", "eth_failed"}}

\* C26: one providerWithdraw for each confirmation.  When the handler of a
\* ConfirmProviderWithdraw event has been called, one SendEthTransaction from the provider
\* to the primary contract, of value 0, carries providerWithdraw with the token, balance,
\* last commit block and signature of the event as they are, and it hands one transaction
\* with them to the primary chain; nothing is signed for the event and nothing goes to the
\* application chain.
C26_OneProviderWithdraw ==
    \A e \in EventsNamed({"ConfirmProviderWithdraw"}) :
        LET rv == events[e].returnValues
            data == [method |-> "providerWithdraw", token |-> rv.token,
                     balance |-> rv.balance, lastCommitBlock |-> rv.lastCommitBlock,
                     signature |-> rv.signature]
        IN /\ Cardinality(SendsFor(e)) = Cardinality(DispatchesOf(e))
           /\ \A n \in SendsFor(e) :
                  /\ sends[n].from = Provider /\ sends[n].to = EthPNAddress
                  /\ sends[n].value = 0 /\ sends[n].data = data
           /\ Cardinality(EthTxsFor(e)) = Cardinality(BroadcastFor(e))
           /\ \A i \in EthTxsFor(e) :
                  /\ ethTxs[i].to = EthPNAddress /\ ethTxs[i].value = 0
                  /\ ethTxs[i].data = data
           /\ AppTxsFor(e) = {}
           /\ SignedFor(e) = {}

\* The withdrawal of a confirmation has been handed to the primary chain and the node has
\* answered with the transaction's hash.
C26_Witness ==
    \E e \in EventsNamed({"ConfirmProviderWithdraw"}) :
        /\ DispatchesOf(e) # {}
        /\ \E i \in EthTxsFor(e) : ethTxs[i].st = "hash"

\* Two spellings of one address: they differ at most in the case of their letters.
SameAddress(a, b) == a = b \/ {a, b} = {"cp", "CP"}

\* The event at position e of the log is one the router is to hand to a handler: its name
\* has a handler in CITA_EVENTS and, for a Transfer, whose filter names the receiver, the
\* receiver is the provider in any spelling; the filters of the other handlers are empty.
ToHandle(e) ==
    IF events[e].event = "Transfer"
    THEN SameAddress(events[e].returnValues.to, Provider)
    ELSE events[e].event \in {"UserProposeWithdraw", "ProposeCooperativeSettle",
                              "ConfirmProviderWithdraw"} \cup OnchainEvents

\* The events that activation s has gone through: all it found once it has returned, and
\* those up to the one whose handler it waits for before.
Passed(s) ==
    IF scans[s].pc = "done" THEN scans[s].found
    ELSE SubSeq(scans[s].found, 1, scans[s].i)

\* C28: the router.  An activation of processAllEvent has called the handlers of exactly
\* those events it has gone through whose name has a handler and whose return values
\* equal the filter's fields up to the case of letters, in the order of the log; an event
\* without a handler or off the filter is passed over, the activation does not fail over
\* it and goes on to the events after it.
C28_RouterFilters ==
    \A s \in DOMAIN scans :
        /\ scans[s].pc # "rejected"
        /\ scans[s].pc # "query" => scans[s].called = SelectSeq(Passed(s), ToHandle)

\* An activation has passed over an event without a handler or a transfer to somebody
\* else, has then called the handler of a transfer to the provider's address in capital
\* letters, and has returned.
C28_Witness ==
    \E s \in DOMAIN scans :
        /\ scans[s].pc = "done"
        /\ Len(scans[s].found) = 2
        /\ ~ToHandle(scans[s].found[1])
        /\ events[scans[s].found[2]].event = "Transfer"
        /\ events[scans[s].found[2]].returnValues.to = "CP"
        /\ scans[s].called = <<scans[s].found[2]>>

\* Activation s takes a step.
ScanStep(s) == s \in DOMAIN scans /\ scans'[s] # scans[s]

\* 1 when activation s waits for the answer that a handler of an on-chain event asked for,
\* 0 otherwise.
Waiting(rec) == IF rec.pc = "n_read" THEN 1 ELSE 0

\* The handlers of on-chain events that reach their end on a step of activation s: those
\* it calls on the step and the one it waited for, less the one it waits for afterwards.
HandlersEnded(s) ==
    Len(scans'[s].called) - Len(scans[s].called) + Waiting(scans[s]) - Waiting(scans'[s])

\* C27: the handlers of on-chain events only notify.  A step of an activation that handles
\* on-chain events signs nothing, submits nothing to either chain, starts no transaction,
\* and leaves the stored proofs, balances, channels and fee state as they are; it calls at
\* most one callback for each handler that reaches its end, and only for events whose
\* handler the activation has called.
C27_NotifyOnly ==
    [][\A s \in ScanIds :
           ScanStep(s) =>
               /\ UNCHANGED <<signed, appTxs, ethTxs, ethTxCount, sends>>
               /\ UNCHANGED <<channelMap, balanceProofMap, rebalanceProofMap,
                              paymentNetworkMap, feeVars>>
               /\ Len(delivered') - Len(delivered) \in 0 .. HandlersEnded(s)
               /\ SubSeq(delivered', 1, Len(delivered)) = delivered
               /\ \A n \in DOMAIN delivered' \ DOMAIN delivered :
                      \E j \in DOMAIN scans'[s].called :
                          scans'[s].called[j] = delivered'[n].event]_vars

\* The handlers of two on-chain events have reached their end, one that asks the
\* application chain for the channel and one that does not; an event was handed to the
\* callback of its kind and the other, whose kind had no callback, to nobody.
C27_Witness ==
    \E s \in DOMAIN scans :
        /\ scans[s].pc = "done"
        /\ Len(scans[s].called) = 2
        /\ \E j, k \in 1 .. 2 :
               /\ events[scans[s].called[j]].event \in SyncHandlers
               /\ events[scans[s].called[k]].event \notin SyncHandlers
               /\ DeliveriesOf(scans[s].called[j]) = {}
               /\ DeliveriesOf(scans[s].called[k]) # {}

\* Call c hands a transaction to one of the two ledgers in this step.
SubmitsNow(c) ==
    \/ /\ Len(appTxs') > Len(appTxs)
       /\ appTxs'[Len(appTxs')].by = c
    \/ /\ Len(ethTxs') > Len(ethTxs)
       /\ ethTxs'[Len(ethTxs')].by = c

\* C31: SendAsset, ProposeReBalance and CloseChannel submit their chain call only while
\* the channel is still Open: in the step in which such a call hands its transaction to
\* a ledger, the channel's status on the application chain is Open.
C31_OpenAtSubmission ==
    [][\A c \in CallIds :
           calls[c].op \in OpenOps /\ SubmitsNow(c)
               => channelMap[calls[c].channelID].status = StatusOpen]_vars

\* C32: after stop() is called on a started poller, the loop of start() eventually
\* returns, also when no new block appears after the call.  (A watcher that has used up
\* the activations the model allows is left out.)
C32_StopReturns ==
    \A w \in {"cita"} :
        (Started(w) /\ ~watcher[w].enabled)
            ~> (watcher[w].pc = "returned" \/ Len(scans) = MaxScans)

\* The cumulative balance of the transfer a history entry stands for.
BalanceOf(entry) == events[entry.id].returnValues.balance

\* The amounts of one list are the differences of its own cumulative balances, the first
\* measured from zero.
OwnDifferences(list) ==
    \A i \in 1 .. Len(list) :
        list[i].amount = BalanceOf(list[i]) - (IF i = 1 THEN 0 ELSE BalanceOf(list[i - 1]))

\* C33: in the history GetAllTXs returns, within each of the two lists the amount of an
\* entry is its cumulative balance minus the cumulative balance of the entry before it in
\* the same list, the first entry of each list being measured from zero; the entries of
\* the other list do not affect it.
C33_AmountsPerList ==
    \A c \in CallIds :
        calls[c].op = "GetAllTXs" /\ calls[c].pc = "done"
            => /\ OwnDifferences(calls[c].out.value.in)
               /\ OwnDifferences(calls[c].out.value.out)

====
